---- MODULE Spec2Model ----
(***************************************************************************)
(* Ask-Presenta: the PDF -> slide deck pipeline of modules/processor.py    *)
(* (process_pdf_to_presentation), the helpers and agents it calls          *)
(* (modules/helpers.py, modules/agents.py), the slide assembly             *)
(* (modules/slide_generator.py), the two PowerPoint exporters              *)
(* (modules/pptx_converter.py, modules/template_pptx_converter.py) and     *)
(* the export button of the results page (app.py).                         *)
(*                                                                         *)
(* The specifications share the variables:                                 *)
(*   Spec            the runs of process_pdf_to_presentation, one action   *)
(*                   per stretch of code between two awaits;               *)
(*   SpecAssembly    one call of create_html_slide, up to the layout;      *)
(*   SpecGeneration  one call of generate_image_from_prompt;               *)
(*   SpecBullets     one call of extract_key_bullet_points;                *)
(*   SpecSlide       one call of create_html_slide and one export of the   *)
(*                   slide it returns;                                     *)
(*   SpecExport      one call of an exporter on the deck of a finished     *)
(*                   run;                                                  *)
(*   SpecApp         the results page: template uploads and presses of     *)
(*                   the export button;                                    *)
(*   SpecSave        the image files the tasks of one run write;           *)
(*   SpecReading     one call of extract_text_from_pdf;                    *)
(*   SpecRederive    the bullet list of one Slide as each exporter         *)
(*                   re-derives it.                                        *)
(*                                                                         *)
(* Conventions.  Python's None is the empty tuple and a present value x    *)
(* is <<x>>.  Python lists are sequences; the "index" fields keep the      *)
(* 0-based values of the source, so list position p holds index p - 1.     *)
(* A dict is a record, a missing key a field outside its DOMAIN.  In the   *)
(* pipeline a section is identified by its title, which is the section's   *)
(* 0-based ordinal in the extraction result; the text of a PDF is          *)
(* modelled by its length, a prompt by the sequence of its character       *)
(* codes, and a title given to create_html_slide by the sequence of its    *)
(* characters.  The variables calls, failed_at, image_log, slide_log,      *)
(* img_out_of_order, slide_out_of_order, progress_log (the values passed   *)
(* to the progress bar) and earlier_success record what happened during a  *)
(* run or before it and are read by no action.                             *)
(***************************************************************************)
EXTENDS Integers, Sequences, FiniteSets, TLC

\* ---------------------------------------------------------------- bounds
MaxSections == 3
MaxTitleWords == 2
MaxBullets == 5
MaxPromptLen == 11
MaxItems == 6
MaxBulletList == 3
MaxDeck == 2
MaxTemplateSlides == 2
MaxClock == 1
MaxWrites == 2
MaxPages == 3

\* the elements of a Slide's html_content in the bullet re-derivation
MaxMarkup == 2

\* ------------------------------------------------------------- constants
TextLimit == 50000
TruncationNoteLen == 37
PreviewLen == 500
EllipsisLen == 3
ImageFocusMaxBullets == 2
TextFocusMinBullets == 5
LongContentLength == 500
PromptSliceLen == 10
BulletLimit == 5
GenericBulletCount == 3
ContentPreviewLen == 100

\* --------------------------------------------------------------- helpers
None == <<>>

Some(x) == <<x>>

Min(a, b) == IF a <= b THEN a ELSE b

Get(d, key, default) == IF key \in DOMAIN d THEN d[key] ELSE default

\* --------------------------------------------------------------- inputs
\* the uploaded PDFs considered: one that cannot be read, one without pages,
\* one short page, one page longer than the text limit; a page is modelled
\* by the length of its text
PdfPages == {<<>>, <<0>>, <<49999>>}

PdfFiles ==
  {[readable |-> FALSE, pages |-> <<>>]}
    \cup {[readable |-> TRUE, pages |-> p] : p \in PdfPages}

\* client.images.generate, requests.get and Image.open either all succeed or
\* one of them raises
ServiceOutcomes == {"ok", "error"}

\* ------------------------------------------------- helpers.py, pure parts
RECURSIVE PageLoop(_, _, _)
PageLoop(pages, page_num, text) ==
  IF page_num > Len(pages) THEN text
  ELSE LET t == text + pages[page_num] + 2
       IN IF t > TextLimit THEN t + TruncationNoteLen
          ELSE PageLoop(pages, page_num + 1, t)

ExtractTextFromPdf(pdf_file) ==
  IF pdf_file.readable THEN Some(PageLoop(pdf_file.pages, 1, 0)) ELSE None

\* "pdf_text is None": the empty string passes
IsNone(pdf_text) == pdf_text = None

\* "not pdf_text": None and the empty string are both falsy
Falsy(pdf_text) == pdf_text = None \/ pdf_text[1] = 0

PdfPreview(len) == IF len > PreviewLen THEN PreviewLen + EllipsisLen ELSE len

RECURSIVE SumCodes(_)
SumCodes(text) == IF text = <<>> THEN 0 ELSE Head(text) + SumCodes(Tail(text))

\* helpers.py 84-89; a text is the sequence of its character codes
GetColorFromPrompt(prompt_text) ==
  LET hash_val == SumCodes(prompt_text)
  IN <<(hash_val * 123) % 256, (hash_val * 456) % 256, (hash_val * 789) % 256>>

\* prompt[:n]
FirstChars(text, n) == SubSeq(text, 1, Min(n, Len(text)))

\* prompt[-n:]
LastChars(text, n) ==
  IF Len(text) > n THEN SubSeq(text, Len(text) - n + 1, Len(text)) ELSE text

Gradient(prompt) ==
  [kind |-> "gradient", prompt |-> prompt,
   start_color |-> GetColorFromPrompt(FirstChars(prompt, PromptSliceLen)),
   end_color |-> GetColorFromPrompt(IF Len(prompt) > PromptSliceLen
                                    THEN LastChars(prompt, PromptSliceLen)
                                    ELSE prompt)]

\* the gradient placeholder is returned without its is_placeholder flag
GenerateImageUnflagged(service, draw_ok, prompt) ==
  IF service = "ok"
  THEN [image |-> [kind |-> "dalle", prompt |-> prompt],
        url |-> "image_url",
        revised_prompt |-> "revised"]
  ELSE IF draw_ok
  THEN [image |-> Gradient(prompt),
        url |-> "placeholder_image_url",
        revised_prompt |-> "Placeholder image due to API error"]
  ELSE [image |-> [kind |-> "random", prompt |-> prompt],
        url |-> "error_placeholder_image_url",
        revised_prompt |-> "Error occurred",
        is_placeholder |-> TRUE]

\* helpers.py 43-134.  service: the outcome of the inner try (57-74);
\* draw_ok: whether the placeholder of the inner handler (76-123) could be
\* drawn, otherwise the outer handler (125-134) returns a plain image
GenerateImageFromPrompt(service, draw_ok, prompt) ==
  IF service = "ok"
  THEN [image |-> [kind |-> "dalle", prompt |-> prompt],
        url |-> "image_url",
        revised_prompt |-> "revised"]
  ELSE IF draw_ok
  THEN [image |-> Gradient(prompt),
        url |-> "placeholder_image_url",
        revised_prompt |-> "Placeholder image due to API error",
        is_placeholder |-> TRUE]
  ELSE [image |-> [kind |-> "random", prompt |-> prompt],
        url |-> "error_placeholder_image_url",
        revised_prompt |-> "Error occurred",
        is_placeholder |-> TRUE]

SaveImageLocally(image, section_title, index, save_ok) ==
  IF save_ok
  THEN [success |-> TRUE,
        filepath |-> [folder |-> "images_folder",
                      filename |-> [index |-> index, clean_title |-> section_title]],
        filename |-> [index |-> index, clean_title |-> section_title]]
  ELSE [success |-> FALSE, error |-> "error"]

LoadImageInfoFromPil(image, filename, filepath, info_ok) ==
  IF info_ok
  THEN Some([file_path |-> filepath, file_name |-> filename,
             base64_data |-> [jpeg_of |-> image]])
  ELSE None

\* ------------------------------------------------------------ the state
VARIABLES
  pc, ran, returned,
  pdf_content, key_sections, image_prompts, generated_images, slides_html,
  process_complete,
  pdf_text, extraction_result, prompts,
  img_done, results, max_slides, slide_tasks, slide_done, slide_results,
  calls, failed_at, image_log, slide_log, img_out_of_order, slide_out_of_order,
  progress_log, earlier_success,
  slide_section, num_bullet_points, layout_type,
  gen_call, gen_result,
  bp_call, bullet_points,
  asm_call, html_slide,
  files, export_call, export_result,
  uploaded_template, app_report, export_failed,
  clock, image_saves,
  pdf_input, pdf_output,
  rederive_slide, rederived

session == <<pdf_content, key_sections, image_prompts, generated_images,
             slides_html, process_complete>>

locals == <<pdf_text, extraction_result, prompts, img_done, results,
            max_slides, slide_tasks, slide_done, slide_results>>

history == <<calls, failed_at, image_log, slide_log, img_out_of_order,
             slide_out_of_order, progress_log, earlier_success>>

\* one call of create_html_slide: the section it is given, the number of
\* bullet points extract_key_bullet_points returned, the layout it chose
assembly == <<slide_section, num_bullet_points, layout_type>>

\* one call of generate_image_from_prompt: its inputs and what it returned
generation == <<gen_call, gen_result>>

\* one call of extract_key_bullet_points: the model's response and the
\* section's themes, and the list it returned
bullets == <<bp_call, bullet_points>>

\* one call of create_html_slide, from its arguments to the slide
slide_call == <<asm_call, html_slide>>

\* one call of an exporter: the files on disk, the arguments, the outcome
export == <<files, export_call, export_result>>

\* the download tab of app.py: the uploaded template, what the last
\* "Generate PowerPoint Presentation" reported, and whether an export of
\* this session has failed
app == <<uploaded_template, app_report, export_failed>>

\* the state of the calls that are examined on their own
\* the images folder: the second the clock shows and the files the image
\* tasks of one run have written, in the order of the writes
saving == <<clock, image_saves>>

\* one call of extract_text_from_pdf: the file and the text it returned
reading == <<pdf_input, pdf_output>>

\* the bullet list of one Slide as each of the two exporters re-derives it
rederivation == <<rederive_slide, rederived>>

aside == <<assembly, generation, bullets, slide_call, export, app, saving,
           reading,
                 rederivation>>

vars == <<pc, ran, returned, session, locals, history, aside>>

NoCalls ==
  [extract_key_sections |-> 0, create_visual_prompt |-> 0,
   process_image |-> 0, process_slide |-> 0]

\* app.py 23-36
InitSession ==
  /\ pdf_content = None
  /\ key_sections = None
  /\ image_prompts = <<>>
  /\ generated_images = <<>>
  /\ slides_html = <<>>
  /\ process_complete = FALSE

\* no run of process_pdf_to_presentation is under way or recorded
NoRun ==
  /\ pc = "idle"
  /\ returned = None
  /\ pdf_text = None
  /\ extraction_result = None
  /\ prompts = <<>>
  /\ img_done = {}
  /\ results = <<>>
  /\ max_slides = 0
  /\ slide_tasks = <<>>
  /\ slide_done = {}
  /\ slide_results = <<>>
  /\ calls = NoCalls
  /\ failed_at = "none"
  /\ image_log = <<>>
  /\ slide_log = <<>>
  /\ img_out_of_order = FALSE
  /\ slide_out_of_order = FALSE
  /\ progress_log = <<>>
  /\ earlier_success = FALSE

InitPipeline ==
  /\ ran = FALSE
  /\ NoRun
  /\ InitSession

NoSection == [title |-> <<>>, content_length |-> 0]

NoCall == [service |-> "ok", draw_ok |-> TRUE, prompt |-> <<>>]

NoResponse == [response |-> None, themes |-> 0]

\* no call of create_html_slide, generate_image_from_prompt or
\* extract_key_bullet_points is being examined
IdleAssembly ==
  /\ slide_section = NoSection
  /\ num_bullet_points = 0
  /\ layout_type = "none"

IdleGeneration ==
  /\ gen_call = NoCall
  /\ gen_result = None

IdleBullets ==
  /\ bp_call = NoResponse
  /\ bullet_points = None

NoAssembly ==
  [section |-> [title |-> <<>>, content |-> <<>>], bullet_list |-> <<>>,
   image_info |-> None, document_title |-> ""]

NoFiles == [template |-> None, output |-> None]

NoExport ==
  [strategy |-> "none", extraction |-> FALSE, template_stream |-> None,
   template_path |-> None, template_file |-> None, output_path |-> None]

NoReport == [message |-> "none", download |-> None]

IdleSlide ==
  /\ asm_call = NoAssembly
  /\ html_slide = None

IdleExport ==
  /\ files = NoFiles
  /\ export_call = NoExport
  /\ export_result = None

IdleApp ==
  /\ uploaded_template = None
  /\ app_report = NoReport
  /\ export_failed = FALSE

IdleSaving ==
  /\ clock = 0
  /\ image_saves = <<>>

NoFile == [readable |-> FALSE, pages |-> <<>>]

IdleReading ==
  /\ pdf_input = NoFile
  /\ pdf_output = None

NoSlide ==
  [html_content |-> <<>>, title |-> <<>>, section_title |-> <<>>,
   section_content |-> <<>>]

NotRederived == [blank |-> None, template |-> None]

IdleRederivation ==
  /\ rederive_slide = NoSlide
  /\ rederived = NotRederived

Init ==
  /\ InitPipeline
  /\ IdleAssembly
  /\ IdleGeneration
  /\ IdleBullets
  /\ IdleSlide
  /\ IdleExport
  /\ IdleApp
  /\ IdleSaving
  /\ IdleReading
  /\ IdleRederivation

\* ------------------------------------------- processor.py, pure fragments
Gather(slots) == [p \in 1..Len(slots) |-> slots[p]]

Present(r) == r # None

\* the first failing task ends the collection of results
ValidResultsUntilFailure(rs) ==
  LET stop == IF \E p \in 1..Len(rs) : rs[p] = None
              THEN (CHOOSE p \in 1..Len(rs) :
                      rs[p] = None /\ \A q \in 1..(p - 1) : rs[q] # None) - 1
              ELSE Len(rs)
  IN [p \in 1..stop |-> rs[p][1]]

ValidResults(rs) ==
  LET kept == SelectSeq(rs, Present)
  IN [p \in 1..Len(kept) |-> kept[p][1]]

\* the key is ignored and every element put first
InsertFirst(r, s) == <<r>> \o s

InsertByIndex(r, s) ==
  LET k == Cardinality({j \in 1..Len(s) : s[j].index <= r.index})
  IN SubSeq(s, 1, k) \o <<r>> \o SubSeq(s, k + 1, Len(s))

\* sorted(..., reverse=True)
RECURSIVE SortedByIndexDescending(_)
SortedByIndexDescending(s) ==
  IF s = <<>> THEN <<>>
  ELSE LET r == s[Len(s)]
           rest == SortedByIndexDescending(SubSeq(s, 1, Len(s) - 1))
           k == Cardinality({j \in 1..Len(rest) : rest[j].index >= r.index})
       IN SubSeq(rest, 1, k) \o <<r>> \o SubSeq(rest, k + 1, Len(rest))

RECURSIVE SortedByIndex(_)
SortedByIndex(s) ==
  IF s = <<>> THEN <<>>
  ELSE InsertByIndex(s[Len(s)], SortedByIndex(SubSeq(s, 1, Len(s) - 1)))

\* images.append({**result["image_result"], "save_result": .., "image_info": ..})
ImageEntry(result) ==
  [save_result |-> result.save_result, image_info |-> result.image_info]
    @@ result.image_result

\* the slide of create_html_slide as far as the pipeline is concerned: the
\* section it was built from and the image it was given
CreateHtmlSlide(section, image_info, document_title) ==
  [title |-> section.title,
   section_title |-> section.title,
   html_content |-> [slide_title |-> section.title,
                     document_title |-> document_title,
                     image |-> image_info.base64_data]]

\* max_slides one too small: the last image never gets a slide
MaxSlidesDropsLast(sections, image_infos) ==
  IF Min(Len(sections), Len(image_infos)) > 0
  THEN Min(Len(sections), Len(image_infos)) - 1
  ELSE 0

\* processor.py 167
MaxSlides(sections, image_infos) == Min(Len(sections), Len(image_infos))

SlideTasks(sections, image_infos, n) ==
  [p \in 1..n |-> [section |-> sections[p], image_info |-> image_infos[p],
                   index |-> p - 1]]

\* body of process_image after the outcomes of its calls are known
ProcessImageResult(prompt, index, service, draw_ok, raised, save_ok, info_ok) ==
  LET image_result == GenerateImageFromPrompt(service, draw_ok, prompt.prompt)
      is_placeholder == Get(image_result, "is_placeholder", FALSE)
      filename_prefix == IF is_placeholder THEN "placeholder_" ELSE ""
      save_result == SaveImageLocally(image_result.image,
                       <<filename_prefix, prompt.section_title>>, index + 1, save_ok)
      image_info == IF save_result.success
                    THEN LoadImageInfoFromPil(image_result.image,
                           save_result.filepath.filename, save_result.filepath, info_ok)
                    ELSE None
  IN [image_result |-> image_result,
      result |-> IF ~raised /\ save_result.success /\ image_info # None
                 THEN Some([index |-> index, image_result |-> image_result,
                            save_result |-> save_result,
                            image_info |-> image_info[1]])
                 ELSE None]

\* the outcomes of one image task that lead to different behaviour
ImageOutcomes ==
  {o \in [service : ServiceOutcomes, draw_ok : BOOLEAN, raised : BOOLEAN,
          save_ok : BOOLEAN, info_ok : BOOLEAN] :
     /\ (o.service = "ok" => o.draw_ok)
     /\ (o.raised => ~o.save_ok)
     /\ (~o.save_ok => ~o.info_ok)}

\* ---------------------------------------------------------- the actions
ResetLocals ==
  /\ extraction_result' = None
  /\ prompts' = <<>>
  /\ img_done' = {}
  /\ results' = <<>>
  /\ max_slides' = 0
  /\ slide_tasks' = <<>>
  /\ slide_done' = {}
  /\ slide_results' = <<>>

ResetHistory ==
  /\ calls' = NoCalls
  /\ failed_at' = "none"
  /\ image_log' = <<>>
  /\ slide_log' = <<>>
  /\ img_out_of_order' = FALSE
  /\ slide_out_of_order' = FALSE

\* the value is computed without its base
ProgressValueWithoutBase(base, span, done, total) ==
  IF total = 0 THEN None ELSE Some((span * done) \div total)

\* processor.py 67, 137, 182: base + (span * done // total), None when the
\* division raises ZeroDivisionError
ProgressValue(base, span, done, total) ==
  IF total = 0 THEN None ELSE Some(base + ((span * done) \div total))

\* processor.py 138, 183: min(limit, progress_updated)
Capped(limit, progress_updated) ==
  IF progress_updated = None THEN None
  ELSE Some(Min(limit, progress_updated[1]))

\* the outer "except Exception": report and return None
Abort(stage) ==
  /\ failed_at' = stage
  /\ returned' = None
  /\ pc' = "idle"

\* the session of the earlier run is kept
StartRunKeepingSession(pdf_file) ==
  /\ pc = "idle"
  /\ ran' = TRUE
  /\ ResetLocals
  /\ ResetHistory
  /\ returned' = None
  /\ earlier_success' = (earlier_success \/ process_complete)
  /\ LET text == ExtractTextFromPdf(pdf_file)
     IN /\ pdf_text' = text
        /\ IF Falsy(text)
           THEN /\ UNCHANGED pdf_content
                /\ pc' = "idle"
                /\ progress_log' = <<Some(0)>>
           ELSE /\ pdf_content' = Some(PdfPreview(text[1]))
                /\ pc' = "extract_key_sections"
                /\ progress_log' = <<Some(0), Some(10)>>
  /\ UNCHANGED <<key_sections, image_prompts, generated_images, slides_html,
                 process_complete, aside>>

\* processor.py 23-53: reset, extract the text, stop if there is none
StartRun(pdf_file) ==
  /\ pc = "idle"
  /\ ran' = TRUE
  /\ key_sections' = None
  /\ image_prompts' = <<>>
  /\ generated_images' = <<>>
  /\ slides_html' = <<>>
  /\ process_complete' = FALSE
  /\ ResetLocals
  /\ ResetHistory
  /\ returned' = None
  /\ earlier_success' = (earlier_success \/ process_complete)
  /\ LET text == ExtractTextFromPdf(pdf_file)
     IN /\ pdf_text' = text
        /\ IF Falsy(text)
           THEN /\ pdf_content' = None
                /\ pc' = "idle"
                /\ progress_log' = <<Some(0)>>
           ELSE /\ pdf_content' = Some(PdfPreview(text[1]))
                /\ pc' = "extract_key_sections"
                /\ progress_log' = <<Some(0), Some(10)>>
  /\ UNCHANGED aside

\* processor.py 71-84 and 122-124: store the prompts, start one image task
\* per prompt and wait for all of them
EnterImageStage(ps) ==
  /\ prompts' = ps
  /\ image_prompts' = ps
  /\ results' = [p \in 1..Len(ps) |-> None]
  /\ image_log' = [p \in 1..Len(ps) |-> None]
  /\ img_done' = {}
  /\ progress_log' = Append(progress_log, Some(30))
  /\ pc' = "process_image"

\* processor.py 56-57: await extract_key_sections
ExtractKeySections ==
  /\ pc = "extract_key_sections"
  /\ calls' = [calls EXCEPT !.extract_key_sections = @ + 1]
  /\ \/ \E n \in 0..MaxSections :
          LET er == [document_title |-> "document_title",
                     key_sections |-> [p \in 1..n |-> [title |-> p - 1]]]
          IN /\ extraction_result' = Some(er)
             /\ key_sections' = Some(er)
             /\ IF n = 0
                THEN EnterImageStage(<<>>)
                ELSE /\ pc' = "create_visual_prompt"
                     /\ progress_log' =
                          Append(progress_log, ProgressValue(10, 20, 1, n))
                     /\ UNCHANGED <<prompts, image_prompts, results, image_log,
                                    img_done>>
             /\ UNCHANGED <<returned, failed_at>>
     \/ /\ Abort("extract_key_sections")
        /\ UNCHANGED <<extraction_result, key_sections, prompts, image_prompts,
                       results, image_log, img_done, progress_log>>
  /\ UNCHANGED <<ran, pdf_content, generated_images, slides_html,
                 process_complete, pdf_text, max_slides, slide_tasks,
                 slide_done, slide_results, slide_log, img_out_of_order,
                 slide_out_of_order, earlier_success, aside>>

\* processor.py 66-69: one iteration of the sequential prompt loop
CreateVisualPrompt ==
  /\ pc = "create_visual_prompt"
  /\ calls' = [calls EXCEPT !.create_visual_prompt = @ + 1]
  /\ LET er == extraction_result[1]
         i == Len(prompts)
         section == er.key_sections[i + 1]
         prompt == [section_title |-> section.title, prompt |-> <<section.title>>]
     IN \/ /\ IF i + 1 = Len(er.key_sections)
              THEN EnterImageStage(Append(prompts, prompt))
              ELSE /\ prompts' = Append(prompts, prompt)
                   /\ progress_log' =
                        Append(progress_log,
                               ProgressValue(10, 20, i + 2,
                                             Len(er.key_sections)))
                   /\ UNCHANGED <<pc, image_prompts, results, image_log, img_done>>
           /\ UNCHANGED <<returned, failed_at>>
        \/ /\ Abort("create_visual_prompt")
           /\ UNCHANGED <<prompts, image_prompts, results, image_log, img_done,
                          progress_log>>
  /\ UNCHANGED <<ran, pdf_content, key_sections, generated_images, slides_html,
                 process_complete, pdf_text, extraction_result, max_slides,
                 slide_tasks, slide_done, slide_results, slide_log,
                 img_out_of_order, slide_out_of_order, earlier_success, aside>>

\* processor.py 85-120: one image task runs to its return.  The tasks of a
\* gather may complete in any order.
ProcessImage(index) ==
  /\ pc = "process_image"
  /\ index \in 0..(Len(prompts) - 1)
  /\ index \notin img_done
  /\ \E o \in ImageOutcomes :
       LET r == ProcessImageResult(prompts[index + 1], index, o.service,
                  o.draw_ok, o.raised, o.save_ok, o.info_ok)
       IN /\ results' = [results EXCEPT ![index + 1] = r.result]
          /\ image_log' = [image_log EXCEPT ![index + 1] =
                             Some([valid |-> r.result # None])]
  /\ img_done' = img_done \cup {index}
  /\ img_out_of_order' =
       (img_out_of_order \/ \E j \in 0..(index - 1) : j \notin img_done)
  /\ calls' = [calls EXCEPT !.process_image = @ + 1]
  /\ UNCHANGED <<pc, ran, returned, session, pdf_text, extraction_result,
                 prompts, max_slides, slide_tasks, slide_done, slide_results,
                 failed_at, slide_log, slide_out_of_order, progress_log,
                 earlier_success, aside>>

\* the slide stage is entered as soon as one image task has returned
GatherImagesWithoutWaiting ==
  /\ pc = "process_image"
  /\ img_done # {}
  /\ LET valid_results == ValidResults(Gather(results))
         ordered == SortedByIndex(valid_results)
         images == [p \in 1..Len(ordered) |-> ImageEntry(ordered[p])]
         image_infos == [p \in 1..Len(ordered) |-> ordered[p].image_info]
         sections == extraction_result[1].key_sections
         n == MaxSlides(sections, image_infos)
     IN /\ generated_images' = images
        /\ max_slides' = n
        /\ slide_tasks' = SlideTasks(sections, image_infos, n)
        /\ slide_results' = [p \in 1..n |-> None]
        /\ slide_log' = [p \in 1..n |-> "pending"]
        /\ progress_log' =
             progress_log
               \o [k \in 1..Len(images) |->
                     Capped(60, ProgressValue(30, 30, k, Len(prompts)))]
               \o <<Some(60)>>
  /\ slide_done' = {}
  /\ pc' = "process_slide"
  /\ UNCHANGED <<ran, returned, pdf_content, key_sections, image_prompts,
                 slides_html, process_complete, pdf_text, extraction_result,
                 prompts, img_done, results, calls, failed_at, image_log,
                 img_out_of_order, slide_out_of_order, earlier_success, aside>>

\* processor.py 124-171: the image tasks are gathered, the valid results
\* stored in index order, and one slide task started per image_infos entry
GatherImages ==
  /\ pc = "process_image"
  /\ img_done = 0..(Len(prompts) - 1)
  /\ LET valid_results == ValidResults(Gather(results))
         ordered == SortedByIndex(valid_results)
         images == [p \in 1..Len(ordered) |-> ImageEntry(ordered[p])]
         image_infos == [p \in 1..Len(ordered) |-> ordered[p].image_info]
         sections == extraction_result[1].key_sections
         n == MaxSlides(sections, image_infos)
     IN /\ generated_images' = images
        /\ max_slides' = n
        /\ slide_tasks' = SlideTasks(sections, image_infos, n)
        /\ slide_results' = [p \in 1..n |-> None]
        /\ slide_log' = [p \in 1..n |-> "pending"]
        /\ progress_log' =
             progress_log
               \o [k \in 1..Len(images) |->
                     Capped(60, ProgressValue(30, 30, k, Len(prompts)))]
               \o <<Some(60)>>
  /\ slide_done' = {}
  /\ pc' = "process_slide"
  /\ UNCHANGED <<ran, returned, pdf_content, key_sections, image_prompts,
                 slides_html, process_complete, pdf_text, extraction_result,
                 prompts, img_done, results, calls, failed_at, image_log,
                 img_out_of_order, slide_out_of_order, earlier_success, aside>>

\* processor.py 155-164: one slide task runs to its return
ProcessSlide(index) ==
  /\ pc = "process_slide"
  /\ index \in 0..(max_slides - 1)
  /\ index \notin slide_done
  /\ LET task == slide_tasks[index + 1]
         slide == CreateHtmlSlide(task.section, task.image_info,
                                  extraction_result[1].document_title)
     IN \/ /\ slide_results' = [slide_results EXCEPT ![index + 1] =
                                  Some([index |-> task.index, slide |-> slide])]
           /\ slide_log' = [slide_log EXCEPT ![index + 1] = "ok"]
        \/ /\ slide_results' = [slide_results EXCEPT ![index + 1] = None]
           /\ slide_log' = [slide_log EXCEPT ![index + 1] = "failed"]
  /\ slide_done' = slide_done \cup {index}
  /\ slide_out_of_order' =
       (slide_out_of_order \/ \E j \in 0..(index - 1) : j \notin slide_done)
  /\ calls' = [calls EXCEPT !.process_slide = @ + 1]
  /\ UNCHANGED <<pc, ran, returned, session, pdf_text, extraction_result,
                 prompts, img_done, results, max_slides, slide_tasks,
                 failed_at, image_log, img_out_of_order, progress_log,
                 earlier_success, aside>>

\* the run is reported complete whatever the number of slides
GatherSlidesAlwaysComplete ==
  /\ pc = "process_slide"
  /\ slide_done = 0..(max_slides - 1)
  /\ LET valid_slide_results == ValidResults(Gather(slide_results))
         ordered == SortedByIndex(valid_slide_results)
         slides == [p \in 1..Len(ordered) |-> ordered[p].slide]
     IN /\ slides_html' = slides
        /\ progress_log' =
             progress_log
               \o [k \in 1..Len(slides) |->
                     Capped(100, ProgressValue(60, 40, k, max_slides))]
               \o <<Some(100)>>
        /\ process_complete' = TRUE
        /\ returned' = Some([extraction_result |-> extraction_result[1],
                             prompts |-> prompts,
                             images |-> generated_images,
                             slides |-> slides])
  /\ pc' = "idle"
  /\ UNCHANGED <<ran, pdf_content, key_sections, image_prompts,
                 generated_images, locals, calls, failed_at, image_log,
                 slide_log, img_out_of_order, slide_out_of_order,
                 earlier_success, aside>>

\* processor.py 173-202: the slide tasks are gathered, the valid slides
\* stored in index order, and the run reports its result
GatherSlides ==
  /\ pc = "process_slide"
  /\ slide_done = 0..(max_slides - 1)
  /\ LET valid_slide_results == ValidResults(Gather(slide_results))
         ordered == SortedByIndex(valid_slide_results)
         slides == [p \in 1..Len(ordered) |-> ordered[p].slide]
     IN /\ slides_html' = slides
        /\ progress_log' =
             progress_log
               \o [k \in 1..Len(slides) |->
                     Capped(100, ProgressValue(60, 40, k, max_slides))]
               \o <<Some(100)>>
        /\ IF Len(slides) > 0
           THEN /\ process_complete' = TRUE
                /\ returned' = Some([extraction_result |-> extraction_result[1],
                                     prompts |-> prompts,
                                     images |-> generated_images,
                                     slides |-> slides])
           ELSE /\ returned' = None
                /\ UNCHANGED process_complete
  /\ pc' = "idle"
  /\ UNCHANGED <<ran, pdf_content, key_sections, image_prompts,
                 generated_images, locals, calls, failed_at, image_log,
                 slide_log, img_out_of_order, slide_out_of_order,
                 earlier_success, aside>>

Next ==
  \/ \E pdf_file \in PdfFiles : StartRun(pdf_file)
  \/ ExtractKeySections
  \/ CreateVisualPrompt
  \/ \E index \in 0..(MaxSections - 1) : ProcessImage(index)
  \/ GatherImages
  \/ \E index \in 0..(MaxSections - 1) : ProcessSlide(index)
  \/ GatherSlides

Spec == Init /\ [][Next]_vars


\* ------------------------------------------------ strings as characters
LowerLetters ==
  <<"a", "b", "c", "d", "e", "f", "g", "h", "i", "j", "k", "l", "m", "n", "o", "p", "q", "r", "s", "t", "u", "v", "w", "x", "y", "z">>

UpperLetters ==
  <<"A", "B", "C", "D", "E", "F", "G", "H", "I", "J", "K", "L", "M", "N", "O", "P", "Q", "R", "S", "T", "U", "V", "W", "X", "Y", "Z">>

LowerOf ==
  [c \in {UpperLetters[k] : k \in 1..26} |->
     LowerLetters[CHOOSE k \in 1..26 : UpperLetters[k] = c]]

UpperOf ==
  [c \in {LowerLetters[k] : k \in 1..26} |->
     UpperLetters[CHOOSE k \in 1..26 : LowerLetters[k] = c]]

Lower(c) == IF c \in DOMAIN LowerOf THEN LowerOf[c] ELSE c

Upper(c) == IF c \in DOMAIN UpperOf THEN UpperOf[c] ELSE c

\* str.lower() and str.upper()
ToLower(s) == [k \in 1..Len(s) |-> Lower(s[k])]

ToUpper(s) == [k \in 1..Len(s) |-> Upper(s[k])]

\* str.title(): the first letter of every word in upper case
ToTitle(s) ==
  [k \in 1..Len(s) |-> IF k = 1 \/ s[k - 1] = " " THEN Upper(s[k]) ELSE s[k]]

\* "sub in s"
Contains(s, sub) ==
  \E k \in 0..(Len(s) - Len(sub)) : SubSeq(s, k + 1, k + Len(sub)) = sub

RECURSIVE LStrip(_)
LStrip(s) == IF s # <<>> /\ s[1] = " " THEN LStrip(Tail(s)) ELSE s

RECURSIVE RStrip(_)
RStrip(s) ==
  IF s # <<>> /\ s[Len(s)] = " " THEN RStrip(SubSeq(s, 1, Len(s) - 1)) ELSE s

\* str.strip()
Strip(s) == RStrip(LStrip(s))

\* ------------------------------------------------ the titles considered
Vocabulary ==
  {<<"v", "i", "s", "u", "a", "l">>,
   <<"d", "i", "a", "g", "r", "a", "m">>,
   <<"c", "h", "a", "r", "t">>,
   <<"p", "i", "c", "t", "u", "r", "e">>,
   <<"i", "m", "a", "g", "e">>,
   <<"p", "h", "o", "t", "o">>,
   <<"c", "o", "m", "p", "a", "r", "i", "s", "o", "n">>,
   <<"v", "e", "r", "s", "u", "s">>,
   <<"v", "s">>,
   <<"o", "v", "e", "r", "v", "i", "e", "w">>,
   <<"c", "a", "n", "v", "a", "s">>,
   <<"a", " ", "v", "s", " ", "b">>,
   <<"A", " ", "v", "s", " ", "B">>}

RECURSIVE JoinWords(_)
JoinWords(ws) ==
  IF Len(ws) = 0 THEN <<>>
  ELSE IF Len(ws) = 1 THEN ws[1]
  ELSE ws[1] \o <<" ">> \o JoinWords(Tail(ws))

WordLists == UNION {[1..k -> Vocabulary] : k \in 1..MaxTitleWords}

Titles ==
  UNION {{JoinWords(ws), ToUpper(JoinWords(ws)), ToTitle(JoinWords(ws))} :
           ws \in WordLists}

ContentLengths == {100, 500, 501, 600}

Sections == [title : Titles, content_length : ContentLengths]

\* ----------------------------------- slide_generator.py, create_html_slide
image_keywords ==
  <<<<"v", "i", "s", "u", "a", "l">>,
    <<"d", "i", "a", "g", "r", "a", "m">>,
    <<"c", "h", "a", "r", "t">>,
    <<"p", "i", "c", "t", "u", "r", "e">>,
    <<"i", "m", "a", "g", "e">>,
    <<"p", "h", "o", "t", "o">>>>

HasImageKeywords(title_lower) ==
  \E k \in 1..Len(image_keywords) : Contains(title_lower, image_keywords[k])

HasComparisonKeywords(title_lower) ==
  \/ Contains(title_lower, <<"c", "o", "m", "p", "a", "r", "i", "s", "o", "n">>)
  \/ Contains(title_lower, <<"v", "e", "r", "s", "u", "s">>)
  \/ Contains(title_lower, <<"v", "s">>)

\* the title is matched without lower()
TitleAsIs(title) == Strip(title)

TitleLower(title) == ToLower(Strip(title))

\* "content_length >= 500"
LayoutTypeLongFrom500(num_bullets, title, content_length) ==
  IF num_bullets <= ImageFocusMaxBullets /\ HasImageKeywords(TitleLower(title))
  THEN "image_focus"
  ELSE IF num_bullets >= TextFocusMinBullets
  THEN "text_focus"
  ELSE IF HasComparisonKeywords(TitleLower(title))
  THEN "comparison"
  ELSE IF content_length >= LongContentLength
  THEN "text_focus"
  ELSE "balanced"

\* the comparison keywords are looked at before the bullet count
LayoutTypeComparisonFirst(num_bullets, title, content_length) ==
  IF num_bullets <= ImageFocusMaxBullets /\ HasImageKeywords(TitleLower(title))
  THEN "image_focus"
  ELSE IF HasComparisonKeywords(TitleLower(title))
  THEN "comparison"
  ELSE IF num_bullets >= TextFocusMinBullets
  THEN "text_focus"
  ELSE IF content_length > LongContentLength
  THEN "text_focus"
  ELSE "balanced"

\* the content length is looked at before the comparison keywords
LayoutTypeLengthFirst(num_bullets, title, content_length) ==
  IF num_bullets <= ImageFocusMaxBullets /\ HasImageKeywords(TitleLower(title))
  THEN "image_focus"
  ELSE IF num_bullets >= TextFocusMinBullets
  THEN "text_focus"
  ELSE IF content_length > LongContentLength
  THEN "text_focus"
  ELSE IF HasComparisonKeywords(TitleLower(title))
  THEN "comparison"
  ELSE "balanced"

\* the content length is not looked at
LayoutTypeLengthIgnored(num_bullets, title, content_length) ==
  IF num_bullets <= ImageFocusMaxBullets /\ HasImageKeywords(TitleLower(title))
  THEN "image_focus"
  ELSE IF num_bullets >= TextFocusMinBullets
  THEN "text_focus"
  ELSE IF HasComparisonKeywords(TitleLower(title))
  THEN "comparison"
  ELSE "balanced"

\* slide_generator.py 86-101
LayoutType(num_bullets, title, content_length) ==
  IF num_bullets <= ImageFocusMaxBullets /\ HasImageKeywords(TitleLower(title))
  THEN "image_focus"
  ELSE IF num_bullets >= TextFocusMinBullets
  THEN "text_focus"
  ELSE IF HasComparisonKeywords(TitleLower(title))
  THEN "comparison"
  ELSE IF content_length > LongContentLength
  THEN "text_focus"
  ELSE "balanced"

\* slide_generator.py 56-101: create_html_slide is given a section, obtains
\* its bullet points and chooses the layout
InitAssembly ==
  /\ InitPipeline
  /\ slide_section \in Sections
  /\ num_bullet_points \in 0..MaxBullets
  /\ layout_type = "none"
  /\ IdleGeneration
  /\ IdleBullets
  /\ IdleSlide
  /\ IdleExport
  /\ IdleApp
  /\ IdleSaving
  /\ IdleReading
  /\ IdleRederivation

ChooseLayout ==
  /\ layout_type = "none"
  /\ layout_type' = LayoutType(num_bullet_points, slide_section.title,
                               slide_section.content_length)
  /\ UNCHANGED <<pc, ran, returned, session, locals, history,
                 slide_section, num_bullet_points, generation, bullets,
                 slide_call, export, app, saving, reading,
                 rederivation>>

NextAssembly == ChooseLayout

SpecAssembly == InitAssembly /\ [][NextAssembly]_vars


\* --------------------------------------------------- texts as characters
\* sep.join(parts)
RECURSIVE Join(_, _)
Join(parts, sep) ==
  IF parts = <<>> THEN <<>>
  ELSE IF Len(parts) = 1 THEN parts[1]
  ELSE parts[1] \o sep \o Join(Tail(parts), sep)

\* text.split(sep): the pieces between the occurrences of sep, found from
\* the left
RECURSIVE SplitOn(_, _)
SplitOn(text, sep) ==
  LET at == {k \in 0..(Len(text) - Len(sep)) :
               SubSeq(text, k + 1, k + Len(sep)) = sep}
  IN IF at = {} THEN <<text>>
     ELSE LET k == CHOOSE x \in at : \A y \in at : x <= y
          IN <<SubSeq(text, 1, k)>>
               \o SplitOn(SubSeq(text, k + Len(sep) + 1, Len(text)), sep)

Ellipsis == <<".", ".", ".">>

\* ------------------------- slide_generator.py, the slide and its document
\* A document is the sequence of its elements that carry data, in document
\* order; the style sheet and the fixed markup are left out.
BulletClass(layout) ==
  IF layout = "text_focus" THEN "compact"
  ELSE IF layout = "comparison" THEN "comparison-item"
  ELSE IF layout = "image_focus" THEN "highlight"
  ELSE "standard"

\* slide_generator.py 121-190: one bullet-text element per bullet point; the
\* comparison layout puts the first half in one column and the rest in
\* the other
GenerateBulletPointsHtml(bullet_list, layout) ==
  LET half == Len(bullet_list) \div 2
  IN [k \in 1..Len(bullet_list) |->
        [tag |-> "bullet-text", class |-> BulletClass(layout),
         column |-> IF layout # "comparison" THEN 0
                    ELSE IF k <= half THEN 1 ELSE 2,
         text |-> bullet_list[k]]]

JpegImg(image_info, slide_title) ==
  [tag |-> "img", mime |-> "image/jpeg", data |-> image_info.base64_data,
   alt |-> slide_title]

CompanyLogo ==
  [tag |-> "img", mime |-> "image/png", data |-> "logo", alt |-> "Company Logo"]

\* slide_generator.py 192-466
GenerateHtmlContent(slide_title, document_title, layout, bullet_points_html, image_info) ==
  <<[tag |-> "title", text |-> <<slide_title, document_title>>],
    [tag |-> "h1", text |-> slide_title],
    [tag |-> "subtitle", text |-> document_title]>>
  \o (IF layout = "image_focus"
      THEN <<JpegImg(image_info, slide_title)>> \o bullet_points_html
      ELSE IF layout = "comparison"
      THEN bullet_points_html
      ELSE bullet_points_html \o <<JpegImg(image_info, slide_title)>>)
  \o <<[tag |-> "footer-text", text |-> <<document_title, slide_title>>],
       CompanyLogo>>

\* slide_generator.py 56-119, with the bullet points
\* extract_key_bullet_points returned
HtmlSlide(section, bullet_list, image_info, document_title) ==
  LET slide_title == Strip(section.title)
      layout == LayoutType(Len(bullet_list), section.title, Len(section.content))
  IN [html_content |->
        GenerateHtmlContent(slide_title, document_title, layout,
          GenerateBulletPointsHtml(bullet_list, layout), image_info),
      title |-> slide_title,
      section_title |-> section.title,
      section_content |->
        IF bullet_list # <<>> THEN Join(bullet_list, <<",", " ">>)
        ELSE FirstChars(section.content, ContentPreviewLen) \o Ellipsis]

\* ----------------------------------- pptx_converter.py, the slide's data
\* re.findall(r'<div class="bullet-text">([^<]+)</div>', html): the texts
\* of the bullet-text elements that are not empty and hold no "<"
BulletMatches(html_content) ==
  LET IsMatch(e) == /\ e.tag = "bullet-text"
                    /\ e.text # <<>>
                    /\ ~Contains(e.text, <<"<">>)
      found == SelectSeq(html_content, IsMatch)
  IN [k \in 1..Len(found) |-> found[k].text]

NotBlank(point) == point # <<>> /\ Len(Strip(point)) > 0

\* pptx_converter.py 147-159
RederiveBulletPoints(slide_obj) ==
  LET found == IF slide_obj.section_content # <<>>
                  /\ Contains(slide_obj.section_content, <<",">>)
               THEN SplitOn(slide_obj.section_content, <<",", " ">>)
               ELSE BulletMatches(slide_obj.html_content)
  IN SelectSeq(found, NotBlank)

\* re.search(r'src="data:image\/jpeg;base64,([^"]+)"', html): the data of
\* the first jpeg image of the document
ImageMatch(html_content) ==
  LET IsMatch(e) == e.tag = "img" /\ e.mime = "image/jpeg"
      found == SelectSeq(html_content, IsMatch)
  IN IF found = <<>> THEN None ELSE Some(found[1].data)

\* base64.b64decode
B64Decode(base64_data) == [bytes_of |-> base64_data]

\* the first image of the document is taken whatever its type
ExtractAnyImage(slide_obj) ==
  LET IsImg(e) == e.tag = "img"
      found == SelectSeq(slide_obj.html_content, IsImg)
  IN IF found = <<>> THEN None ELSE Some(B64Decode(found[1].data))

\* pptx_converter.py 166-174 and template_pptx_converter.py 166-174
ExtractImage(slide_obj) ==
  LET match == ImageMatch(slide_obj.html_content)
  IN IF match # None THEN Some(B64Decode(match[1])) ELSE None

DocumentTitle(extraction, default) ==
  IF extraction # None THEN extraction[1].document_title
  ELSE default

\* ------------------------- pptx_converter.py, create_powerpoint_from_slides
\* pptx_converter.py 69-96: the title slide
BlankTitleSlide(extraction) ==
  [kind |-> "title",
   layout |-> "title_slide_layout",
   title |-> Some(DocumentTitle(extraction, "Presentation")),
   subtitle |-> IF extraction # None
                THEN Some(extraction[1].summary) ELSE None]

\* pptx_converter.py 116-269: the content slide of one Slide
BlankContentSlide(slide_obj, extraction) ==
  LET bullet_list == RederiveBulletPoints(slide_obj)
      is_image_focus ==
        /\ Len(bullet_list) <= ImageFocusMaxBullets
        /\ Contains(ToLower(slide_obj.title), <<"i", "m", "a", "g", "e">>)
      is_text_focus == Len(bullet_list) >= TextFocusMinBullets
      image_data == ExtractImage(slide_obj)
  IN [kind |-> "content",
      layout |-> "blank_slide_layout",
      title |-> Some(slide_obj.title),
      subtitle |-> Some(DocumentTitle(extraction, "")),
      arrangement |-> IF is_image_focus THEN "image_focus"
                      ELSE IF is_text_focus THEN "text_focus" ELSE "balanced",
      bullet_points |-> bullet_list,
      paragraphs |->
        IF bullet_list = <<>> THEN None
        ELSE Some([k \in 1..Len(bullet_list) |->
                     IF is_image_focus THEN bullet_list[k]
                     ELSE <<"*", " ">> \o bullet_list[k]]),
      picture |-> IF image_data # None
                  THEN Some([image |-> image_data[1], into |-> "shape"])
                  ELSE None]

\* pptx_converter.py 40-287
CreatePowerpointFromSlides(slides, extraction, output_path) ==
  LET prs == <<BlankTitleSlide(extraction)>>
               \o [k \in 1..Len(slides) |->
                     BlankContentSlide(slides[k], extraction)]
  IN [raised |-> "none",
      returned |-> Some(prs),
      processed |-> Len(slides),
      saved |-> IF output_path # None THEN Some(prs) ELSE None]

\* ------------ template_pptx_converter.py, create_powerpoint_from_template
\* A template is what python-pptx reads from a .pptx: whether it can be
\* opened, the number of its slides, the placeholder types of its first
\* slide and of each of its slide layouts (1 title, 2 subtitle, 7 content,
\* 18 picture, as the code numbers them), and whether insert_picture works
\* on its picture placeholders.

\* os.path.exists(path) and the file's content: only "template.pptx" can
\* exist
FileAt(disk, path) ==
  IF path = "template.pptx" THEN disk.template ELSE None

\* without a template source an empty presentation is used
LoadTemplateOrDefault(disk, template_stream, template_path, template_file) ==
  LET path == IF template_file # None /\ template_path = None
              THEN template_file ELSE template_path
      default == [valid |-> TRUE, slides |-> 1, first_slide |-> {1, 2},
                  layouts |-> <<{1, 2}, {1, 7}>>, insert_ok |-> TRUE]
  IN IF template_stream # None THEN template_stream
     ELSE IF path # None /\ FileAt(disk, path[1]) # None
     THEN FileAt(disk, path[1])
     ELSE Some(default)

\* template_pptx_converter.py 30-42: the template that is opened, None
\* when FileNotFoundError is raised
LoadTemplate(disk, template_stream, template_path, template_file) ==
  LET path == IF template_file # None /\ template_path = None
              THEN template_file ELSE template_path
  IN IF template_stream # None THEN template_stream
     ELSE IF path # None /\ FileAt(disk, path[1]) # None
     THEN FileAt(disk, path[1])
     ELSE None

\* every slide of the template is kept
KeptSlidesAll(template) == template.slides

\* template_pptx_converter.py 49-52: all slides but the first are removed
KeptSlides(template) == IF template.slides > 1 THEN 1 ELSE template.slides

\* template_pptx_converter.py 55-77
TemplateTitleSlide(template, extraction) ==
  [kind |-> "title",
   layout |-> "template_first_slide",
   title |-> IF 1 \in template.first_slide
             THEN Some(DocumentTitle(extraction, "Presentation")) ELSE None,
   subtitle |-> IF 2 \in template.first_slide THEN Some("") ELSE None]

\* a slide of the template that was not removed
TemplateSlide(ordinal) ==
  [kind |-> "template", layout |-> "template_slide", ordinal |-> ordinal]

\* template_pptx_converter.py 79-103: the index of the content layout, 0
\* when slide_layouts[6] raises IndexError
ContentLayout(layouts) ==
  LET suitable == {k \in 1..Len(layouts) : 1 \in layouts[k] /\ 7 \in layouts[k]}
  IN IF suitable # {} THEN CHOOSE k \in suitable : \A j \in suitable : k <= j
     ELSE IF Len(layouts) > 1 THEN 2
     ELSE IF Len(layouts) >= 7 THEN 7
     ELSE 0

\* the section content is split at every comma
TemplateBulletPointsSplitOnComma(slide_obj) ==
  LET found == IF slide_obj.section_content # <<>>
                  /\ Contains(slide_obj.section_content, <<",">>)
               THEN SplitOn(slide_obj.section_content, <<",">>)
               ELSE BulletMatches(slide_obj.html_content)
  IN SelectSeq(found, NotBlank)

\* template_pptx_converter.py 141-153
TemplateBulletPoints(slide_obj) ==
  LET points ==
        IF slide_obj.section_content # <<>>
           /\ Contains(slide_obj.section_content, <<",">>)
        THEN SplitOn(slide_obj.section_content, <<",", " ">>)
        ELSE LET bullet_matches == BulletMatches(slide_obj.html_content)
             IN IF bullet_matches # <<>> THEN bullet_matches ELSE <<>>
  IN SelectSeq(points, NotBlank)

\* template_pptx_converter.py 115-203: the content slide of one Slide
TemplateContentSlide(slide_obj, placeholders, insert_ok) ==
  LET bullet_list == TemplateBulletPoints(slide_obj)
      image_data == ExtractImage(slide_obj)
      image_placeholder == placeholders \cap {17, 18, 19} # {}
  IN [kind |-> "content",
      layout |-> placeholders,
      title |-> IF 1 \in placeholders THEN Some(slide_obj.title) ELSE None,
      subtitle |-> None,
      arrangement |-> "template",
      bullet_points |-> bullet_list,
      paragraphs |-> IF 7 \in placeholders /\ bullet_list # <<>>
                     THEN Some(bullet_list) ELSE None,
      picture |-> IF image_data # None
                  THEN Some([image |-> image_data[1],
                             into |-> IF image_placeholder /\ insert_ok
                                      THEN "placeholder" ELSE "shape"])
                  ELSE None]

Raised(error) ==
  [raised |-> error, returned |-> None, processed |-> 0, saved |-> None]

\* template_pptx_converter.py 15-214
CreatePowerpointFromTemplate(disk, slides, extraction, template_path, output_path, template_stream, template_file) ==
  LET loaded == LoadTemplate(disk, template_stream, template_path,
                             template_file)
  IN IF loaded = None THEN Raised("FileNotFoundError")
     ELSE IF ~loaded[1].valid THEN Raised("PackageNotFoundError")
     ELSE IF ContentLayout(loaded[1].layouts) = 0 THEN Raised("IndexError")
     ELSE
       LET template == loaded[1]
           placeholders == template.layouts[ContentLayout(template.layouts)]
           kept == [k \in 1..KeptSlides(template) |->
                      IF k = 1 THEN TemplateTitleSlide(template, extraction)
                      ELSE TemplateSlide(k)]
           prs == kept \o [k \in 1..Len(slides) |->
                             TemplateContentSlide(slides[k], placeholders,
                                                  template.insert_ok)]
       IN [raised |-> "none",
           returned |-> Some(prs),
           processed |-> Len(slides),
           saved |-> IF output_path # None THEN Some(prs) ELSE None]

\* --------------------------------- helpers.py, generate_image_from_prompt
PromptCodes == {32, 65, 122}

\* prompts of every length up to MaxPromptLen
Prompts ==
  {[k \in 1..n |-> IF k = n THEN d ELSE c] :
     <<c, d, n>> \in PromptCodes \X PromptCodes \X (0..MaxPromptLen)}

GenCalls == [service : ServiceOutcomes, draw_ok : BOOLEAN, prompt : Prompts]

InitGeneration ==
  /\ InitPipeline
  /\ IdleAssembly
  /\ IdleBullets
  /\ IdleSlide
  /\ IdleExport
  /\ IdleApp
  /\ IdleSaving
  /\ IdleReading
  /\ IdleRederivation
  /\ gen_call \in GenCalls
  /\ gen_result = None

GenerateImage ==
  /\ gen_result = None
  /\ gen_result' = Some(GenerateImageFromPrompt(gen_call.service,
                          gen_call.draw_ok, gen_call.prompt))
  /\ UNCHANGED <<pc, ran, returned, session, locals, history, assembly,
                 gen_call, bullets, slide_call, export, app, saving, reading,
                 rederivation>>

NextGeneration == GenerateImage

SpecGeneration == InitGeneration /\ [][NextGeneration]_vars

\* ------------------------------------ agents.py, extract_key_bullet_points
\* The text of a response is the sequence of its tokens: "[" "]" "," the
\* newline "nl", a bullet marker "-" (a dash or a star), a double-quoted
\* non-empty string "q" and a run "w" of other characters.
OneLine(n, open, item, sep, close) ==
  open \o [k \in 1..(IF n = 0 THEN 0 ELSE 2 * n - 1) |->
             IF k % 2 = 1 THEN item ELSE sep] \o close

\* ["..", ".."]: a list literal of n strings
ListOf(n) == OneLine(n, <<"[">>, "q", ",", <<"]">>)

\* [.., ..]: a bracketed list of n unquoted phrases
BareList(n) == OneLine(n, <<"[">>, "w", ",", <<"]">>)

\* n quoted strings, one per line
QuotedLines(n) == OneLine(n, <<>>, "q", "nl", <<>>)

\* n lines "- phrase"
MarkedLines(n) ==
  [k \in 1..(IF n = 0 THEN 0 ELSE 3 * n - 1) |->
     IF k % 3 = 1 THEN "-" ELSE IF k % 3 = 2 THEN "w" ELSE "nl"]

\* the texts the model is taken to answer with
ResponseTexts ==
  {ListOf(n) : n \in 0..MaxItems}
    \cup {BareList(n) : n \in 1..MaxItems}
    \cup {QuotedLines(n) : n \in 1..MaxItems}
    \cup {MarkedLines(n) : n \in 0..MaxItems}
    \cup {<<"w">>, <<"w", "nl", "w">>, <<"[", "q", ",", "q">>,
          <<"[", "]", "w">>, <<"w", "[", "]">>, <<"-">>, <<"[", "w">>}

\* the call of the model raises, or answers with a text
Responses == {None} \cup {Some(t) : t \in ResponseTexts}

BulletCalls == [response : Responses, themes : 0..MaxItems]

\* ast.literal_eval(text) is a list: brackets around strings separated by
\* commas, a trailing comma allowed
IsListLiteral(text) ==
  /\ Len(text) >= 2
  /\ text[1] = "["
  /\ text[Len(text)] = "]"
  /\ \A k \in 2..(Len(text) - 1) :
       text[k] = (IF k % 2 = 0 THEN "q" ELSE ",")

Positions(text, token) == {k \in 1..Len(text) : text[k] = token}

\* the elements of a set of positions in increasing order
RECURSIVE Ascending(_)
Ascending(S) ==
  IF S = {} THEN <<>>
  ELSE LET m == CHOOSE x \in S : \A y \in S : x <= y
       IN <<m>> \o Ascending(S \ {m})

\* [str(point) for point in ast.literal_eval(text)]
LiteralItems(text) ==
  LET at == Ascending(Positions(text, "q"))
  IN [k \in 1..Len(at) |-> [source |-> "literal", item |-> k]]

\* re.findall(r'"([^"]+)"', text)
FindQuoted(text) ==
  LET at == Ascending(Positions(text, "q"))
  IN [k \in 1..Len(at) |-> [source |-> "quoted", item |-> k]]

\* re.search(r'\[\s*(.+?)\s*\]', text): the first "[" that is followed, on
\* its line and after at least one token, by a "]"; the group is what lies
\* between them
BracketMatch(text) ==
  LET closes(i) == {j \in (i + 2)..Len(text) :
                      /\ text[j] = "]"
                      /\ \A k \in (i + 1)..(j - 1) : text[k] # "nl"}
      opens == {i \in Positions(text, "[") : closes(i) # {}}
  IN IF opens = {} THEN None
     ELSE LET i == CHOOSE x \in opens : \A y \in opens : x <= y
              j == CHOOSE x \in closes(i) : \A y \in closes(i) : x <= y
          IN Some(SubSeq(text, i + 1, j - 1))

\* group(1).split(','), every piece stripped
SplitByComma(group) ==
  [k \in 1..(Cardinality(Positions(group, ",")) + 1) |->
     [source |-> "bracket", item |-> k]]

\* text.split('\n')
RECURSIVE Lines(_)
Lines(text) ==
  IF Positions(text, "nl") = {} THEN <<text>>
  ELSE LET n == CHOOSE x \in Positions(text, "nl") :
                  \A y \in Positions(text, "nl") : x <= y
       IN <<SubSeq(text, 1, n - 1)>> \o Lines(SubSeq(text, n + 1, Len(text)))

\* line.lstrip('-*[] ')
RECURSIVE LStripMarkers(_)
LStripMarkers(line) ==
  IF line # <<>> /\ line[1] \in {"-", "[", "]"}
  THEN LStripMarkers(Tail(line)) ELSE line

\* .rstrip(']')
RECURSIVE RStripBracket(_)
RStripBracket(line) ==
  IF line # <<>> /\ line[Len(line)] = "]"
  THEN RStripBracket(SubSeq(line, 1, Len(line) - 1)) ELSE line

IsMarkedLine(line) ==
  /\ line # <<>>
  /\ \/ line[1] = "-"
     \/ line[1] = "[" /\ Positions(line, "]") # {}
  /\ RStripBracket(LStripMarkers(line)) # <<>>

\* agents.py 174-182
MarkedBullets(text) ==
  LET lines == Lines(text)
      kept == {k \in 1..Len(lines) : IsMarkedLine(lines[k])}
      at == Ascending(kept)
  IN [k \in 1..Len(at) |-> [source |-> "line", item |-> at[k]]]

\* bullet_points[:5]
FirstFive(bullet_list) ==
  SubSeq(bullet_list, 1, Min(BulletLimit, Len(bullet_list)))

ThemeBullets(themes) ==
  [k \in 1..Min(BulletLimit, themes) |-> [source |-> "theme", item |-> k]]

GenericBullets ==
  [k \in 1..GenericBulletCount |-> [source |-> "generic", item |-> k]]

\* the marked lines are tried before the bracketed list
FallbackBulletsLinesFirst(text, themes) ==
  LET quoted == FindQuoted(text)
      marked == IF quoted = <<>> THEN MarkedBullets(text) ELSE quoted
      bracket == IF marked = <<>> /\ BracketMatch(text) # None
                 THEN SplitByComma(BracketMatch(text)[1])
                 ELSE marked
      themed == IF bracket = <<>> /\ themes > 0
                THEN ThemeBullets(themes) ELSE bracket
      final == IF themed = <<>> THEN GenericBullets ELSE themed
  IN FirstFive(final)

\* agents.py 155-197: the handler of SyntaxError and ValueError
FallbackBullets(text, themes) ==
  LET quoted == FindQuoted(text)
      bracket == IF quoted = <<>> /\ BracketMatch(text) # None
                 THEN SplitByComma(BracketMatch(text)[1])
                 ELSE quoted
      marked == IF bracket = <<>> THEN MarkedBullets(text) ELSE bracket
      themed == IF marked = <<>> /\ themes > 0
                THEN ThemeBullets(themes) ELSE marked
      final == IF themed = <<>> THEN GenericBullets ELSE themed
  IN FirstFive(final)

\* agents.py 126-206
ExtractKeyBulletPoints(call) ==
  IF call.response = None THEN GenericBullets
  ELSE IF IsListLiteral(call.response[1])
  THEN FirstFive(LiteralItems(call.response[1]))
  ELSE FallbackBullets(call.response[1], call.themes)

InitBullets ==
  /\ InitPipeline
  /\ IdleAssembly
  /\ IdleGeneration
  /\ IdleSlide
  /\ IdleExport
  /\ IdleApp
  /\ IdleSaving
  /\ IdleReading
  /\ IdleRederivation
  /\ bp_call \in BulletCalls
  /\ bullet_points = None

ExtractBullets ==
  /\ bullet_points = None
  /\ bullet_points' = Some(ExtractKeyBulletPoints(bp_call))
  /\ UNCHANGED <<pc, ran, returned, session, locals, history, assembly,
                 generation, bp_call, slide_call, export, app, saving, reading,
                 rederivation>>

NextBullets == ExtractBullets

SpecBullets == InitBullets /\ [][NextBullets]_vars

\* ------------------------------- one slide, assembled and then exported
\* the bullet points considered: plain, with a blank inside, with ", "
\* inside, with "," inside, empty, blank, with "<" inside
BulletTexts ==
  {<<"a">>, <<"b", " ", "c">>, <<"a", ",", " ", "b">>, <<"a", ",", "b">>,
   <<>>, <<" ">>, <<"a", "<", "b">>}

BulletLists == UNION {[1..n -> BulletTexts] : n \in 0..MaxBulletList}

\* a content longer than 500 characters that begins "a, aaa"
LongContent ==
  [k \in 1..(LongContentLength + 1) |->
     IF k = 2 THEN "," ELSE IF k = 3 THEN " " ELSE "a"]

SlideTitles ==
  {<<"O", "v", "e", "r", "v", "i", "e", "w">>,
   <<"I", "m", "a", "g", "e">>,
   <<"A", " ", "v", "s", " ", "B">>}

SlideSections ==
  [title : SlideTitles, content : {<<"a", "b">>, LongContent}]

\* the ImageInfo of the image generated and saved for the section at index
ImageInfoFor(index) ==
  ProcessImageResult([section_title |-> index, prompt |-> <<index>>], index,
                     "ok", TRUE, FALSE, TRUE, TRUE).result[1].image_info

AssemblyCalls ==
  [section : SlideSections, bullet_list : BulletLists,
   image_info : {Some(ImageInfoFor(0))}, document_title : {"document_title"}]

\* the ContentExtractionResult the exporters are given
Extraction(sections) ==
  [document_title |-> "document_title", summary |-> "summary",
   key_sections |-> sections]

\* a template with a title slide and a title-and-content layout
StandardTemplate ==
  [valid |-> TRUE, slides |-> 1, first_slide |-> {1, 2},
   layouts |-> <<{1, 2}, {1, 7}>>, insert_ok |-> TRUE]

BlankCall(extraction, output_path) ==
  [strategy |-> "blank", extraction |-> extraction, template_stream |-> None,
   template_path |-> None, template_file |-> None,
   output_path |-> output_path]

TemplateCall(extraction, template_stream, template_path, template_file, output_path) ==
  [strategy |-> "template", extraction |-> extraction,
   template_stream |-> template_stream, template_path |-> template_path,
   template_file |-> template_file, output_path |-> output_path]

\* the exports of the one slide: either strategy, as app.py calls them
SlideExportCalls ==
  {BlankCall(TRUE, None),
   TemplateCall(TRUE, Some(StandardTemplate), None, None, None)}

\* one call of an exporter on a deck
RunExport(disk, slides, extraction, call) ==
  LET given == IF call.extraction THEN extraction ELSE None
  IN IF call.strategy = "blank"
     THEN CreatePowerpointFromSlides(slides, given, call.output_path)
     ELSE CreatePowerpointFromTemplate(disk, slides, given,
            call.template_path, call.output_path, call.template_stream,
            call.template_file)

\* the call is made, its outcome kept, and what it saved is on disk
Export(slides, extraction, call) ==
  /\ export_result = None
  /\ export_call' = call
  /\ LET r == RunExport(files, slides, extraction, call)
     IN /\ export_result' = Some(r)
        /\ files' = [files EXCEPT !.output =
                       IF r.saved # None THEN r.saved ELSE @]

InitSlide ==
  /\ InitPipeline
  /\ IdleAssembly
  /\ IdleGeneration
  /\ IdleBullets
  /\ IdleExport
  /\ IdleApp
  /\ IdleSaving
  /\ IdleReading
  /\ IdleRederivation
  /\ asm_call \in AssemblyCalls
  /\ html_slide = None

\* slide_generator.py 43-119
CreateSlide ==
  /\ html_slide = None
  /\ html_slide' = Some(HtmlSlide(asm_call.section, asm_call.bullet_list,
                                  asm_call.image_info[1],
                                  asm_call.document_title))
  /\ UNCHANGED <<pc, ran, returned, session, locals, history, assembly,
                 generation, bullets, asm_call, export, app, saving, reading,
                 rederivation>>

\* the slide is exported as a deck of one slide
ExportSlide ==
  /\ html_slide # None
  /\ \E call \in SlideExportCalls :
       Export(<<html_slide[1]>>, Some(Extraction(<<asm_call.section>>)), call)
  /\ UNCHANGED <<pc, ran, returned, session, locals, history, assembly,
                 generation, bullets, slide_call, app, saving, reading,
                 rederivation>>

NextSlide == CreateSlide \/ ExportSlide

SpecSlide == InitSlide /\ [][NextSlide]_vars

\* --------------------------------------- a finished run and its exports
\* one section of each layout, with the bullet points of its slide:
\* balanced, image_focus, comparison, text_focus
DeckKinds ==
  {[section |-> [title |-> <<"O", "v", "e", "r", "v", "i", "e", "w">>,
                 content |-> <<"a", "b">>],
    bullet_list |-> <<<<"a">>, <<"b", " ", "c">>>>],
   [section |-> [title |-> <<"I", "m", "a", "g", "e">>,
                 content |-> <<"a", "b">>],
    bullet_list |-> <<<<"a">>>>],
   [section |-> [title |-> <<"A", " ", "v", "s", " ", "B">>,
                 content |-> <<"a", "b">>],
    bullet_list |-> <<<<"a">>, <<"b", " ", "c">>, <<"a">>>>],
   [section |-> [title |-> <<"O", "v", "e", "r", "v", "i", "e", "w">>,
                 content |-> LongContent],
    bullet_list |-> <<<<"b", " ", "c">>>>]}

\* the sections of a document, in order, up to MaxDeck of them
DeckPlans == UNION {[1..n -> DeckKinds] : n \in 0..MaxDeck}

PlanPrompts(plan) ==
  [k \in 1..Len(plan) |->
     [section_title |-> plan[k].section.title, prompt |-> <<k - 1>>]]

PlanImages(plan) ==
  [k \in 1..Len(plan) |->
     ImageEntry(ProcessImageResult(PlanPrompts(plan)[k], k - 1, "ok", TRUE,
                                   FALSE, TRUE, TRUE).result[1])]

PlanSlides(plan) ==
  [k \in 1..Len(plan) |->
     HtmlSlide(plan[k].section, plan[k].bullet_list,
               PlanImages(plan)[k].image_info, "document_title")]

\* processor.py 24-29, 57, 72, 130-134, 177-184: the session after a run in
\* which every task succeeded; without sections the session is as new
SessionAfterRun(plan) ==
  IF plan = <<>> THEN ran = FALSE /\ InitSession
  ELSE /\ ran = TRUE
       /\ pdf_content = Some(PdfPreview(TextLimit))
       /\ key_sections =
            Some(Extraction([k \in 1..Len(plan) |-> plan[k].section]))
       /\ image_prompts = PlanPrompts(plan)
       /\ generated_images = PlanImages(plan)
       /\ slides_html = PlanSlides(plan)
       /\ process_complete = TRUE

\* a file that is no presentation
InvalidTemplate ==
  [valid |-> FALSE, slides |-> 0, first_slide |-> {}, layouts |-> <<>>,
   insert_ok |-> FALSE]

\* the templates considered: the standard one with any number of slides,
\* one with a picture placeholder (insert_picture working or not), one
\* whose second layout has a title only, one with a single layout, one
\* whose first slide has no placeholder, and a file that cannot be opened
Templates ==
  {[StandardTemplate EXCEPT !.slides = n] : n \in 0..MaxTemplateSlides}
    \cup {[StandardTemplate EXCEPT !.layouts = <<{1, 2}, {1, 7, 18}>>],
          [StandardTemplate EXCEPT !.layouts = <<{1, 2}, {1, 7, 18}>>,
                                   !.insert_ok = FALSE],
          [StandardTemplate EXCEPT !.layouts = <<{1, 2}, {1}>>],
          [StandardTemplate EXCEPT !.layouts = <<{1, 2}>>],
          [StandardTemplate EXCEPT !.first_slide = {}],
          InvalidTemplate}

Paths == {None, Some("template.pptx"), Some("missing.pptx")}

OutputPaths == {None, Some("out.pptx")}

\* the calls of the two exporters
ExportCalls ==
  {BlankCall(TRUE, o) : o \in OutputPaths}
    \cup {TemplateCall(TRUE, t, p, f, o) :
            <<t, p, f, o>> \in ({None} \cup {Some(x) : x \in Templates})
                                 \X Paths \X Paths \X OutputPaths}
    \cup {BlankCall(FALSE, None),
          TemplateCall(FALSE, Some(StandardTemplate), None, None, None)}

InitExport ==
  /\ NoRun
  /\ \E plan \in DeckPlans : SessionAfterRun(plan)
  /\ IdleAssembly
  /\ IdleGeneration
  /\ IdleBullets
  /\ IdleSlide
  /\ IdleApp
  /\ IdleSaving
  /\ IdleReading
  /\ IdleRederivation
  /\ files \in [template : {None, Some(StandardTemplate), Some(InvalidTemplate)},
                output : {None}]
  /\ export_call = NoExport
  /\ export_result = None

\* an exporter is called on the deck of the session
ExportDeck ==
  /\ \E call \in ExportCalls : Export(slides_html, key_sections, call)
  /\ UNCHANGED <<pc, ran, returned, session, locals, history, assembly,
                 generation, bullets, slide_call, app, saving, reading,
                 rederivation>>

NextExport == ExportDeck

SpecExport == InitExport /\ [][NextExport]_vars

\* ------------------------------------ app.py, render_results: the export
\* app.py 114, 129: the download options are shown for a finished run with
\* at least one slide
DownloadShown == process_complete /\ Len(slides_html) > 0

\* app.py 158-169: the first existing template path
TemplateFile ==
  IF files.template # None THEN Some("template.pptx") ELSE None

\* app.py 182-194: the checkbox that is shown, if any, decides
UseTemplate(checked) ==
  (uploaded_template # None \/ TemplateFile # None) /\ checked

\* app.py 199-223: the exporter call the button makes
ButtonCall(checked) ==
  IF UseTemplate(checked)
  THEN IF uploaded_template # None
       THEN TemplateCall(TRUE, uploaded_template, None, None, None)
       ELSE TemplateCall(TRUE, None, None, TemplateFile, None)
  ELSE BlankCall(TRUE, None)

\* app.py 225-240: what the page shows after the call
Report(result) ==
  IF result.raised = "none"
  THEN [message |-> "success", download |-> result.returned]
  ELSE [message |-> "error", download |-> None]

InitApp ==
  /\ NoRun
  /\ \E plan \in DeckPlans : SessionAfterRun(plan)
  /\ IdleAssembly
  /\ IdleGeneration
  /\ IdleBullets
  /\ IdleSlide
  /\ IdleApp
  /\ IdleSaving
  /\ IdleReading
  /\ IdleRederivation
  /\ files \in [template : {None, Some(StandardTemplate), Some(InvalidTemplate)},
                output : {None}]
  /\ export_call = NoExport
  /\ export_result = None

\* app.py 173-179: a template is uploaded and the page is drawn again
UploadTemplate ==
  /\ DownloadShown
  /\ \E template \in Templates : uploaded_template' = Some(template)
  /\ app_report' = NoReport
  /\ UNCHANGED <<pc, ran, returned, session, locals, history, assembly,
                 generation, bullets, slide_call, export, export_failed, saving, reading,
                 rederivation>>

\* a failed export starts the session over
GeneratePowerPointStartingOver(checked) ==
  LET call == ButtonCall(checked)
      result == RunExport(files, slides_html, key_sections, call)
  IN /\ DownloadShown
     /\ export_call' = call
     /\ export_result' = Some(result)
     /\ app_report' = Report(result)
     /\ export_failed' = (export_failed \/ result.raised # "none")
     /\ IF result.raised # "none"
        THEN /\ pdf_content' = None
             /\ key_sections' = None
             /\ image_prompts' = <<>>
             /\ generated_images' = <<>>
             /\ slides_html' = <<>>
             /\ process_complete' = FALSE
        ELSE UNCHANGED session
     /\ UNCHANGED <<pc, ran, returned, locals, history, assembly,
                    generation, bullets, slide_call, files,
                    uploaded_template, saving, reading,
                 rederivation>>

\* app.py 196-240: the button "Generate PowerPoint Presentation"
GeneratePowerPoint(checked) ==
  LET call == ButtonCall(checked)
      result == RunExport(files, slides_html, key_sections, call)
  IN /\ DownloadShown
     /\ export_call' = call
     /\ export_result' = Some(result)
     /\ app_report' = Report(result)
     /\ export_failed' = (export_failed \/ result.raised # "none")
     /\ UNCHANGED <<pc, ran, returned, session, locals, history, assembly,
                    generation, bullets, slide_call, files,
                    uploaded_template, saving, reading,
                 rederivation>>

PressGenerate == \E checked \in BOOLEAN : GeneratePowerPoint(checked)

NextApp == UploadTemplate \/ PressGenerate

SpecApp == InitApp /\ [][NextApp]_vars

\* ------------------------------------------ helpers.py, save_image_locally
Digits == <<"0", "1", "2", "3", "4", "5", "6", "7", "8", "9">>

\* str(n) for n >= 0
RECURSIVE DecimalOf(_)
DecimalOf(n) ==
  IF n < 10 THEN <<Digits[n + 1]>>
  ELSE DecimalOf(n \div 10) \o <<Digits[(n % 10) + 1]>>

\* datetime.now().strftime("%Y%m%d_%H%M%S") within the first minute of
\* 2026-01-01: every field has a fixed width
Timestamp(second) ==
  <<"2", "0", "2", "6", "0", "1", "0", "1", "_", "0", "0", "0", "0">>
    \o <<Digits[(second \div 10) + 1], Digits[(second % 10) + 1]>>

\* c.isalnum()
IsAlnum(c) ==
  \E k \in 1..Len(LowerLetters) :
    c = LowerLetters[k] \/ c = UpperLetters[k] \/ (k <= 10 /\ c = Digits[k])

\* ''.join(c if c.isalnum() else '_' for c in section_title)
CleanTitle(section_title) ==
  [k \in 1..Len(section_title) |->
     IF IsAlnum(section_title[k]) THEN section_title[k] ELSE "_"]

\* the index is left out of the name
FilenameWithoutIndex(timestamp, index, section_title) ==
  timestamp \o <<"_">> \o CleanTitle(section_title)
    \o <<".", "p", "n", "g">>

\* helpers.py 153-155: f"{timestamp}_{index}_{clean_title}.png"
Filename(timestamp, index, section_title) ==
  timestamp \o <<"_">> \o DecimalOf(index) \o <<"_">>
    \o CleanTitle(section_title) \o <<".", "p", "n", "g">>

\* processor.py 93-94: the title handed to save_image_locally
PrefixedTitle(section_title, is_placeholder) ==
  (IF is_placeholder
   THEN <<"p", "l", "a", "c", "e", "h", "o", "l", "d", "e", "r", "_">>
   ELSE <<>>) \o section_title

\* section titles: equal ones, ones that differ in characters that are not
\* alphanumeric, ones that begin with digits, the empty one
SaveTitles ==
  {<<"a", " ", "b">>, <<"a", "_", "b">>, <<"a", "-", "b">>, <<"a">>,
   <<"1", "_", "a">>, <<"1">>, <<>>}

\* the 0-based indexes of the image tasks that are observed
TaskIndexes == {0, 1, 10}

InitSave ==
  /\ InitPipeline
  /\ IdleAssembly
  /\ IdleGeneration
  /\ IdleBullets
  /\ IdleSlide
  /\ IdleExport
  /\ IdleApp
  /\ IdleSaving
  /\ IdleReading
  /\ IdleRederivation

\* a second passes
Tick ==
  /\ clock < MaxClock
  /\ clock' = clock + 1
  /\ UNCHANGED <<pc, ran, returned, session, locals, history, assembly,
                 generation, bullets, slide_call, export, app, image_saves, reading,
                 rederivation>>

\* processor.py 90-100 and helpers.py 149-162: the image task of a prompt
\* saves its image; a task saves once
SaveImage(index, section_title, is_placeholder) ==
  /\ Len(image_saves) < MaxWrites
  /\ \A k \in 1..Len(image_saves) : image_saves[k].index # index
  /\ image_saves' =
       Append(image_saves,
              [index |-> index,
               filepath |->
                 [folder |-> "images_folder",
                  filename |->
                    Filename(Timestamp(clock), index + 1,
                             PrefixedTitle(section_title, is_placeholder))]])
  /\ UNCHANGED <<pc, ran, returned, session, locals, history, assembly,
                 generation, bullets, slide_call, export, app, clock, reading,
                 rederivation>>

NextSave ==
  \/ Tick
  \/ \E index \in TaskIndexes, section_title \in SaveTitles,
        is_placeholder \in BOOLEAN :
       SaveImage(index, section_title, is_placeholder)

SpecSave == InitSave /\ [][NextSave]_vars

\* ---------------------------------------- helpers.py, extract_text_from_pdf
\* The text is kept as the sequence of its parts: the text of a page (with
\* the page's number and length), the separator "\n\n" after it, and the
\* truncation note.
PagePart(page_num, length) ==
  [kind |-> "page", page_num |-> page_num, length |-> length]

SeparatorPart == [kind |-> "separator", page_num |-> 0, length |-> 2]

NotePart ==
  [kind |-> "note", page_num |-> 0, length |-> TruncationNoteLen]

\* len(text)
RECURSIVE TextLength(_)
TextLength(text) ==
  IF text = <<>> THEN 0 ELSE Head(text).length + TextLength(Tail(text))

\* helpers.py 30-36
RECURSIVE PageLoopParts(_, _, _)
PageLoopParts(pages, page_num, text) ==
  IF page_num > Len(pages) THEN text
  ELSE LET t == text \o <<PagePart(page_num, pages[page_num]), SeparatorPart>>
       IN IF TextLength(t) > TextLimit THEN Append(t, NotePart)
          ELSE PageLoopParts(pages, page_num + 1, t)

\* helpers.py 26-41
ExtractTextParts(pdf_file) ==
  IF pdf_file.readable THEN Some(PageLoopParts(pdf_file.pages, 1, <<>>))
  ELSE None

\* the lengths of the pages considered
PageLengths == {0, 1, 25000, 49998, 49999, 50000, 60000}

\* the files given to extract_text_from_pdf: up to MaxPages pages
ReadFiles ==
  {NoFile} \cup
    {[readable |-> TRUE, pages |-> p] :
       p \in UNION {[1..n -> PageLengths] : n \in 0..MaxPages}}

InitReading ==
  /\ InitPipeline
  /\ IdleAssembly
  /\ IdleGeneration
  /\ IdleBullets
  /\ IdleSlide
  /\ IdleExport
  /\ IdleApp
  /\ IdleSaving
  /\ pdf_input \in ReadFiles
  /\ pdf_output = None
  /\ IdleRederivation

\* the call returns the text, or None when the file cannot be read
ReadPdf ==
  /\ pdf_output = None
  /\ pdf_output' = ExtractTextParts(pdf_input)
  /\ UNCHANGED <<pc, ran, returned, session, locals, history, assembly,
                 generation, bullets, slide_call, export, app, saving,
                 pdf_input, rederivation>>

NextReading == ReadPdf

SpecReading == InitReading /\ [][NextReading]_vars

\* ------------------------------- the two exporters' bullet re-derivation
\* the values of section_content considered
RederiveContents ==
  {<<>>,
   <<"a">>,
   <<"a", " ", "b">>,
   <<"a", ",", " ", "b">>,
   <<"a", ",", "b">>,
   <<"a", ",", " ", ",", " ", "b">>,
   <<"a", ",", " ", " ", ",", " ", "b">>,
   <<",", " ">>,
   <<",">>,
   <<" ", "a", ",", " ">>}

\* the elements of html_content considered: bullet-text elements with a
\* plain, a blank, an empty and a "<" text, and a heading
RederiveElements ==
  {[tag |-> "bullet-text", text |-> <<"a">>],
   [tag |-> "bullet-text", text |-> <<" ">>],
   [tag |-> "bullet-text", text |-> <<>>],
   [tag |-> "bullet-text", text |-> <<"a", "<", "b">>],
   [tag |-> "h1", text |-> <<"a">>]}

\* the Slides given to the exporters: any section_content with any
\* html_content of up to MaxMarkup elements
RederiveSlides ==
  {[html_content |-> h, title |-> <<"t">>, section_title |-> <<"t">>,
    section_content |-> c] :
     h \in UNION {[1..n -> RederiveElements] : n \in 0..MaxMarkup},
     c \in RederiveContents}

InitRederive ==
  /\ InitPipeline
  /\ IdleAssembly
  /\ IdleGeneration
  /\ IdleBullets
  /\ IdleSlide
  /\ IdleExport
  /\ IdleApp
  /\ IdleSaving
  /\ IdleReading
  /\ rederive_slide \in RederiveSlides
  /\ rederived = NotRederived

\* create_powerpoint_from_slides reaches line 159 for the Slide
RederiveBlank ==
  /\ rederived.blank = None
  /\ rederived' =
       [rederived EXCEPT !.blank = Some(RederiveBulletPoints(rederive_slide))]
  /\ UNCHANGED <<pc, ran, returned, session, locals, history, assembly,
                 generation, bullets, slide_call, export, app, saving,
                 reading, rederive_slide>>

\* create_powerpoint_from_template reaches line 153 for the Slide
RederiveTemplate ==
  /\ rederived.template = None
  /\ rederived' =
       [rederived EXCEPT
          !.template = Some(TemplateBulletPoints(rederive_slide))]
  /\ UNCHANGED <<pc, ran, returned, session, locals, history, assembly,
                 generation, bullets, slide_call, export, app, saving,
                 reading, rederive_slide>>

NextRederive == RederiveBlank \/ RederiveTemplate

SpecRederive == InitRederive /\ [][NextRederive]_vars

\* ------------------------------------------------- observations of a run
Finished == pc = "idle" /\ ran

ExtractionFailed == ran /\ (pdf_text = <<>> \/ pdf_text = <<0>>)

NumSections ==
  IF key_sections = <<>> THEN 0 ELSE Len(key_sections[1].key_sections)

\* the image tasks are gathered and their results stored
ImagesGathered ==
  \/ pc = "process_slide"
  \/ Finished /\ failed_at = "none" /\ key_sections # <<>>

\* the slide tasks are gathered, the run reached its last statement
SlidesGathered == Finished /\ failed_at = "none" /\ key_sections # <<>>

ImageTaskDone(i) == i + 1 \in DOMAIN image_log /\ image_log[i + 1] # <<>>

ImageTaskValid(i) == ImageTaskDone(i) /\ image_log[i + 1][1].valid

ValidImages == {i \in 0..(MaxSections - 1) : ImageTaskValid(i)}

FailedImages ==
  {i \in 0..(MaxSections - 1) : ImageTaskDone(i) /\ ~ImageTaskValid(i)}

OkSlideTasks == {i \in 0..(MaxSections - 1) :
                   i + 1 \in DOMAIN slide_log /\ slide_log[i + 1] = "ok"}

FailedSlideTasks == {i \in 0..(MaxSections - 1) :
                       i + 1 \in DOMAIN slide_log /\ slide_log[i + 1] = "failed"}

\* the Section a slide of the deck was built from
SlideSection(slide) == slide.section_title

\* the Section whose prompt an image was generated from
ImageOrigin(image) == image.image.prompt[1]

DeckSections == {SlideSection(slides_html[p]) : p \in 1..Len(slides_html)}

\* ------------------------------------------------------------------- C1
\* C1 (as claimed): when a run has finished, the number of slides in
\* slides_html equals min(number of Sections, number of images that were
\* generated and saved), whatever the image and slide tasks did.  An image
\* counts when its task returned a result.
C1_SlideCountIsMin ==
  Finished => Len(slides_html) = Min(NumSections, Cardinality(ValidImages))

\* C1 (amended): when a run has finished, the number of slides equals
\* min(number of Sections, number of images that were generated and saved)
\* minus the number of slide tasks that failed.
C1_SlideCount ==
  Finished =>
    Len(slides_html) =
      Min(NumSections, Cardinality(ValidImages)) - Cardinality(FailedSlideTasks)

C1_Witness ==
  /\ Finished
  /\ Len(slides_html) >= 1
  /\ FailedSlideTasks # {}
  /\ Cardinality(ValidImages) < NumSections

\* ------------------------------------------------------------------- C2
\* C2: every slide of the deck belongs to a Section whose own image was
\* generated and saved; the Sections without an image have no slide.
C2_SlideOnlyWithOwnImage ==
  \A p \in 1..Len(slides_html) : ImageTaskValid(SlideSection(slides_html[p]))

\* ------------------------------------------------------------------- C3
\* C3: the originating Section indices of consecutive slides of slides_html
\* are strictly increasing.
C3_SlideOrder ==
  \A p \in 1..(Len(slides_html) - 1) :
    SlideSection(slides_html[p]) < SlideSection(slides_html[p + 1])

C3_Witness ==
  /\ Finished
  /\ Len(slides_html) >= 2
  /\ slide_out_of_order
  /\ FailedSlideTasks # {}

\* ------------------------------------------------------------------- C4
\* the Sections whose visual prompt could not be created or whose image task
\* returned no result
FailedSections ==
  FailedImages \cup
    (IF failed_at = "create_visual_prompt" THEN {Len(prompts)} ELSE {})

\* C4: when exactly one Section's prompt creation or image generation fails
\* (and no slide task fails), the run continues to its end and the deck
\* holds the slides of exactly the other Sections.
C4_SectionFailureNonFatal ==
  (/\ Finished
   /\ key_sections # <<>>
   /\ Cardinality(FailedSections) = 1
   /\ FailedSlideTasks = {})
    => /\ failed_at = "none"
       /\ DeckSections = (0..(NumSections - 1)) \ FailedSections

\* ------------------------------------------------------------------- C5
\* C5: when the text extraction fails or yields empty text, the run returns
\* None at once: no later stage is executed, process_complete is false and
\* slides_html is empty.
C5_ExtractionFailureAborts ==
  ExtractionFailed =>
    /\ pc = "idle"
    /\ returned = <<>>
    /\ calls = NoCalls
    /\ key_sections = <<>>
    /\ image_prompts = <<>>
    /\ generated_images = <<>>
    /\ slides_html = <<>>
    /\ ~process_complete

C5_Witness == Finished /\ pdf_text = <<0>>

\* ------------------------------------------------------------------- C6
\* C6: every call of generate_image_from_prompt returns a result with an
\* image, and the result carries is_placeholder = True exactly when the
\* service call failed.
C6_PlaceholderFlag ==
  gen_result # <<>> =>
    LET r == gen_result[1]
    IN /\ "image" \in DOMAIN r
       /\ (("is_placeholder" \in DOMAIN r /\ r.is_placeholder)
             <=> gen_call.service # "ok")

C6_Witness ==
  /\ gen_result # <<>>
  /\ gen_call.service = "error"
  /\ gen_call.draw_ok
  /\ Len(gen_call.prompt) > 10
  /\ gen_result[1].image.start_color # gen_result[1].image.end_color

\* ------------------------------------------------------------------- C7
\* C7: whatever the order in which the tasks completed, generated_images is
\* the list of the results of the successful image tasks in increasing
\* Section index, and slides_html the list of the slides of the successful
\* slide tasks in increasing Section index: both lists are determined by
\* the tasks' outcomes alone.
C7_OrderIndependent ==
  /\ ImagesGathered =>
       /\ Len(generated_images) = Cardinality(ValidImages)
       /\ \A p \in 1..Len(generated_images) :
            /\ ImageOrigin(generated_images[p]) \in ValidImages
            /\ generated_images[p].image_info =
                 results[ImageOrigin(generated_images[p]) + 1][1].image_info
       /\ \A p \in 1..(Len(generated_images) - 1) :
            ImageOrigin(generated_images[p]) < ImageOrigin(generated_images[p + 1])
  /\ SlidesGathered =>
       /\ Len(slides_html) = Cardinality(OkSlideTasks)
       /\ \A p \in 1..Len(slides_html) :
            /\ SlideSection(slides_html[p]) \in OkSlideTasks
            /\ slides_html[p].html_content.image =
                 slide_tasks[SlideSection(slides_html[p]) + 1].image_info.base64_data
       /\ \A p \in 1..(Len(slides_html) - 1) :
            SlideSection(slides_html[p]) < SlideSection(slides_html[p + 1])

C7_Witness ==
  /\ SlidesGathered
  /\ img_out_of_order
  /\ slide_out_of_order
  /\ Len(generated_images) >= 2
  /\ Len(slides_html) >= 2

\* ------------------------------------------------------------------- C8
\* C8: a failing task leaves None in its own slot only: the result of every
\* image task that succeeded is in generated_images, the slide stage runs
\* one task for each of the first min(Sections, valid images) Sections, and
\* the slide of every slide task that succeeded is in slides_html.
C8_SiblingsUnaffected ==
  /\ ImagesGathered =>
       /\ \A i \in FailedImages : results[i + 1] = <<>>
       /\ \A i \in ValidImages :
            \E p \in 1..Len(generated_images) :
              ImageOrigin(generated_images[p]) = i
       /\ max_slides = Min(NumSections, Cardinality(ValidImages))
  /\ SlidesGathered =>
       /\ calls.process_slide = Min(NumSections, Cardinality(ValidImages))
       /\ \A i \in FailedSlideTasks : slide_results[i + 1] = <<>>
       /\ \A i \in OkSlideTasks :
            \E p \in 1..Len(slides_html) : SlideSection(slides_html[p]) = i

C8_Witness ==
  /\ SlidesGathered
  /\ \E i \in FailedImages : \E j \in ValidImages : i < j
  /\ \E i \in FailedSlideTasks : \E j \in OkSlideTasks : i < j


\* ------------------------------------------------------------------- C9
LayoutKinds == {"balanced", "text_focus", "image_focus", "comparison"}

\* case-insensitive substring match
ContainsIgnoreCase(s, kw) ==
  \E k \in 0..(Len(s) - Len(kw)) :
    \A j \in 1..Len(kw) : Lower(s[k + j]) = kw[j]

PolicyImageKeywords ==
  {<<"v", "i", "s", "u", "a", "l">>,
   <<"d", "i", "a", "g", "r", "a", "m">>,
   <<"c", "h", "a", "r", "t">>,
   <<"p", "i", "c", "t", "u", "r", "e">>,
   <<"i", "m", "a", "g", "e">>,
   <<"p", "h", "o", "t", "o">>}

PolicyComparisonKeywords ==
  {<<"c", "o", "m", "p", "a", "r", "i", "s", "o", "n">>, <<"v", "e", "r", "s", "u", "s">>, <<"v", "s">>}

\* the priority list of the layout policy
PolicyRules(n, title, len) ==
  <<[layout |-> "image_focus",
     applies |-> n <= 2 /\ \E kw \in PolicyImageKeywords :
                             ContainsIgnoreCase(title, kw)],
    [layout |-> "text_focus", applies |-> n >= 5],
    [layout |-> "comparison",
     applies |-> \E kw \in PolicyComparisonKeywords :
                   ContainsIgnoreCase(title, kw)],
    [layout |-> "text_focus", applies |-> len > 500],
    [layout |-> "balanced", applies |-> TRUE]>>

FirstMatch(rules) ==
  CHOOSE k \in 1..Len(rules) :
    rules[k].applies /\ \A j \in 1..(k - 1) : ~rules[j].applies

LayoutChosen == layout_type # "none"

\* C9: the layout create_html_slide chooses is one of the four layout kinds
\* and is the layout of the first rule of the policy that applies to
\* (bullet count, title, content length).
C9_LayoutPolicy ==
  LayoutChosen =>
    /\ layout_type \in LayoutKinds
    /\ LET rules == PolicyRules(num_bullet_points, slide_section.title,
                                slide_section.content_length)
       IN layout_type = rules[FirstMatch(rules)].layout

C9_Witness ==
  /\ layout_type = "text_focus"
  /\ num_bullet_points = 4
  /\ slide_section.content_length = 501
  /\ slide_section.title = <<"O", "v", "e", "r", "v", "i", "e", "w">>

\* ------------------------------------------------------------------ C10
\* C10: with at most 2 bullets and a title that contains "diagram" in any
\* letter case, the layout is image_focus, whatever the content length and
\* whatever else the title contains.
C10_DiagramIsImageFocus ==
  (/\ LayoutChosen
   /\ num_bullet_points <= 2
   /\ ContainsIgnoreCase(slide_section.title, <<"d", "i", "a", "g", "r", "a", "m">>))
    => layout_type = "image_focus"

C10_Witness ==
  /\ layout_type = "image_focus"
  /\ num_bullet_points = 0
  /\ slide_section.content_length = 600
  /\ slide_section.title = <<"D", "I", "A", "G", "R", "A", "M", " ", "V", "S">>

\* ------------------------------------------------------------------ C11
PolicyHasImageKeyword(title) ==
  \E kw \in PolicyImageKeywords : ContainsIgnoreCase(title, kw)

PolicyHasComparisonKeyword(title) ==
  \E kw \in PolicyComparisonKeywords : ContainsIgnoreCase(title, kw)

\* C11: with 5 bullets or more the layout is text_focus, whatever the title
\* (image or comparison keywords included) and whatever the content length.
C11_ManyBulletsIsTextFocus ==
  (LayoutChosen /\ num_bullet_points >= 5) => layout_type = "text_focus"

C11_Witness ==
  /\ layout_type = "text_focus"
  /\ num_bullet_points >= 5
  /\ slide_section.content_length = 100
  /\ slide_section.title = <<"D", "i", "a", "g", "r", "a", "m", " ", "V", "s">>

\* ------------------------------------------------------------------ C12
\* C12: with fewer than 5 bullets, the image_focus rule not applying and a
\* title that contains "comparison", "versus" or "vs" in any letter case,
\* the layout is comparison for every content length; in particular for
\* the title "A vs B" with 3 bullets and content length 100.
C12_ComparisonKeywordIsComparison ==
  (/\ LayoutChosen
   /\ num_bullet_points < 5
   /\ ~(num_bullet_points <= 2 /\ PolicyHasImageKeyword(slide_section.title))
   /\ PolicyHasComparisonKeyword(slide_section.title))
    => layout_type = "comparison"

C12_Witness ==
  /\ layout_type = "comparison"
  /\ num_bullet_points = 3
  /\ slide_section.content_length = 100
  /\ slide_section.title = <<"A", " ", "v", "s", " ", "B">>

\* ------------------------------------------------------------------ C13
\* C13: with fewer than 5 bullets and a title without image keyword and
\* without comparison keyword, the layout is text_focus when the content
\* length is greater than 500 and balanced otherwise (500 included).
C13_NeutralTitleByLength ==
  (/\ LayoutChosen
   /\ num_bullet_points < 5
   /\ ~PolicyHasImageKeyword(slide_section.title)
   /\ ~PolicyHasComparisonKeyword(slide_section.title))
    => layout_type = (IF slide_section.content_length > 500
                      THEN "text_focus" ELSE "balanced")

C13_Witness ==
  /\ layout_type = "balanced"
  /\ num_bullet_points = 3
  /\ slide_section.content_length = 500
  /\ slide_section.title = <<"O", "v", "e", "r", "v", "i", "e", "w">>

\* ------------------------------------------------------------------ C14
\* C14: for every response of the model (a list literal of any length, the
\* empty list included, another literal, text that cannot be parsed) and
\* for a failing call, extract_key_bullet_points returns a list of at least
\* 1 and at most 5 items.
C14_BulletCountInRange ==
  bullet_points # <<>> =>
    (Len(bullet_points[1]) >= 1 /\ Len(bullet_points[1]) <= 5)

\* ------------------------------------------------------------------ C15
\* the slide is assembled and exported
SlideExported == html_slide # <<>> /\ export_result # <<>>

\* the bullet points the exporter put on the content slide
Rederived == export_result[1].returned[1][2].bullet_points

\* the contents of the bullet-text elements of the slide's document
MarkupContents ==
  LET IsBulletText(e) == e.tag = "bullet-text"
      elements == SelectSeq(html_slide[1].html_content, IsBulletText)
  IN [k \in 1..Len(elements) |-> elements[k].text]

HasComma(point) == \E k \in 1..Len(point) : point[k] = ","

\* a list of at least one bullet point, none of them empty or blank or
\* holding markup characters
OrdinaryBullets ==
  /\ asm_call.bullet_list # <<>>
  /\ \A k \in 1..Len(asm_call.bullet_list) :
       /\ \E j \in 1..Len(asm_call.bullet_list[k]) :
            asm_call.bullet_list[k][j] # " "
       /\ \A j \in 1..Len(asm_call.bullet_list[k]) :
            asm_call.bullet_list[k][j] # "<"

\* C15: for a slide built from a list of ordinary bullet points, the list
\* the exporter re-derives is the list that was supplied when no bullet
\* point holds a comma, and the list of the contents of the slide's
\* bullet-text elements when one does.
C15_BulletRoundTrip ==
  (SlideExported /\ OrdinaryBullets) =>
    Rederived =
      (IF \E k \in 1..Len(asm_call.bullet_list) :
            HasComma(asm_call.bullet_list[k])
       THEN MarkupContents
       ELSE asm_call.bullet_list)

\* ------------------------------------------------------------------ C16
\* C16: whatever the layout, the document of an assembled slide holds the
\* section's image as a data:image/jpeg;base64 reference with the image's
\* base64 data, so the exporter's image pattern finds it.
C16_ImageInlined ==
  html_slide # <<>> =>
    /\ \E k \in 1..Len(html_slide[1].html_content) :
         LET e == html_slide[1].html_content[k]
         IN /\ e.tag = "img"
            /\ e.mime = "image/jpeg"
            /\ e.data = asm_call.image_info[1].base64_data
    /\ (export_result # <<>> =>
         export_result[1].returned[1][2].picture # <<>>)

\* an exporter was called on the deck of the session
DeckExported == export_result # None

TemplateExported == DeckExported /\ export_call.strategy = "template"

\* the path the template exporter looks at: template_path, or template_file
\* when no template_path is given
SuppliedPath ==
  IF export_call.template_path # None THEN export_call.template_path
  ELSE export_call.template_file

\* no stream is supplied and no file is at the supplied path
NoTemplateSource ==
  /\ export_call.template_stream = None
  /\ \/ SuppliedPath = None
     \/ SuppliedPath[1] # "template.pptx"
     \/ files.template = None

\* C17: the template exporter raises FileNotFoundError when there is neither
\* a stream nor a file at the supplied path, before any slide is processed:
\* no deck is returned and nothing is written to output_path; a supplied
\* stream is the template that is opened and a missing path is then no error
C17_TemplateFailsFast ==
  TemplateExported =>
    IF NoTemplateSource
    THEN /\ export_result[1].raised = "FileNotFoundError"
         /\ export_result[1].returned = None
         /\ export_result[1].processed = 0
         /\ export_result[1].saved = None
         /\ files.output = None
    ELSE /\ export_result[1].raised # "FileNotFoundError"
         /\ export_call.template_stream # None =>
              export_result[1].raised =
                (IF ~export_call.template_stream[1].valid
                 THEN "PackageNotFoundError"
                 ELSE IF Len(export_call.template_stream[1].layouts) < 2
                 THEN "IndexError" ELSE "none")

\* a deck of two slides is exported with an output path but the template
\* path names no file
C17_Witness ==
  /\ TemplateExported
  /\ Len(slides_html) = 2
  /\ export_call.template_stream = None
  /\ export_call.template_path = Some("missing.pptx")
  /\ export_call.template_file = Some("template.pptx")
  /\ files.template # None
  /\ export_call.output_path # None
  /\ export_result[1].raised = "FileNotFoundError"

\* the base64 data of the JPEG image a slide's document refers to
JpegData(slide_obj) ==
  {slide_obj.html_content[k].data : k \in
     {j \in 1..Len(slide_obj.html_content) :
        /\ slide_obj.html_content[j].tag = "img"
        /\ slide_obj.html_content[j].mime = "image/jpeg"}}

\* the slides of the exported deck that were made from the Slides
ContentSlides ==
  LET prs == export_result[1].returned[1]
  IN SelectSeq(prs, LAMBDA made : made.kind = "content")

OpenedTemplate ==
  IF export_call.template_stream # None THEN export_call.template_stream[1]
  ELSE files.template[1]

\* C20: the deck of the blank exporter is a title slide followed by one
\* slide per Slide in input order; the deck of the template exporter, for a
\* template with at least one slide, is the template's first slide followed
\* by one new slide per Slide in input order
C20_DeckStructure ==
  DeckExported /\ export_result[1].raised = "none" =>
    LET prs == export_result[1].returned[1]
        first == IF export_call.strategy = "blank" THEN 1
                 ELSE IF OpenedTemplate.slides >= 1 THEN 1 ELSE 0
    IN /\ Len(prs) = first + Len(slides_html)
       /\ first = 1 =>
            /\ prs[1].kind = "title"
            /\ prs[1].layout = (IF export_call.strategy = "blank"
                                THEN "title_slide_layout"
                                ELSE "template_first_slide")
       /\ \A k \in 1..Len(slides_html) :
            /\ prs[first + k].kind = "content"
            /\ prs[first + k].title \in {None, Some(slides_html[k].title)}
            /\ export_call.strategy = "blank" => prs[first + k].title # None
            /\ JpegData(slides_html[k]) # {} =>
                 /\ prs[first + k].picture # None
                 /\ prs[first + k].picture[1].image.bytes_of
                      \in JpegData(slides_html[k])

\* a deck of two slides is exported through a template of two slides
C20_Witness ==
  /\ TemplateExported
  /\ export_result[1].raised = "none"
  /\ OpenedTemplate.slides = 2
  /\ Len(slides_html) = 2
  /\ slides_html[1].title # slides_html[2].title
  /\ Len(export_result[1].returned[1]) = 3

\* a deck of two slides is exported by the blank exporter
C20_WitnessBlank ==
  /\ DeckExported
  /\ export_call.strategy = "blank"
  /\ Len(slides_html) = 2
  /\ Len(export_result[1].returned[1]) = 3

\* the run state the results page is drawn from
RunState ==
  <<process_complete, key_sections, image_prompts, generated_images,
    slides_html>>

\* C19: a press of the export button whose exporter call raises reports the
\* error and offers no download, and leaves process_complete, key_sections,
\* image_prompts, generated_images and slides_html as they were, so that
\* the export button is still there for the same deck; a press reports
\* success only when the exporter raised nothing
C19_ExportFailureKeepsRun ==
  [][/\ app_report'.message = "error" =>
          /\ export_result'[1].raised # "none"
          /\ app_report'.download = None
          /\ UNCHANGED RunState
          /\ process_complete' /\ Len(slides_html') > 0
     /\ app_report'.message = "success" =>
          /\ export_result'[1].raised = "none"
          /\ UNCHANGED RunState]_vars

\* after an export through an unusable template failed, an export of the
\* same deck of two slides through another template succeeded
C19_Witness ==
  /\ export_failed
  /\ app_report.message = "success"
  /\ export_call.strategy = "template"
  /\ Len(slides_html) = 2
  /\ app_report.download # None
  /\ Len(app_report.download[1]) = 3

\* ------------------------------------------------------------------ C21
\* the layout create_html_slide chose for the slide
ChosenLayout ==
  LayoutType(Len(asm_call.bullet_list), asm_call.section.title,
             Len(asm_call.section.content))

\* C21: the arrangement the blank exporter derives for a Slide from its
\* title and re-derived bullet points is the layout create_html_slide chose
\* when it built the Slide.
C21_ExporterLayoutAgrees ==
  (SlideExported /\ export_call.strategy = "blank") =>
    export_result[1].returned[1][2].arrangement = ChosenLayout

\* ------------------------------------------------------------------ C22
\* the model answered with a text that is no list literal
Unparsed ==
  /\ bullet_points # None
  /\ bp_call.response # None
  /\ ~IsListLiteral(bp_call.response[1])

\* what each fallback yields for the response, in the order of the chain
FallbackYields ==
  LET text == bp_call.response[1]
  IN <<[source |-> "quoted", count |-> Len(FindQuoted(text))],
       [source |-> "bracket",
        count |-> IF BracketMatch(text) = None THEN 0
                  ELSE Cardinality(Positions(BracketMatch(text)[1], ",")) + 1],
       [source |-> "line", count |-> Len(MarkedBullets(text))],
       [source |-> "theme", count |-> bp_call.themes],
       [source |-> "generic", count |-> GenericBulletCount]>>

\* the first fallback of the chain that yields something
FirstYielding ==
  CHOOSE k \in 1..Len(FallbackYields) :
    /\ FallbackYields[k].count > 0
    /\ \A j \in 1..(k - 1) : FallbackYields[j].count = 0

C23_StageBarriers ==
  /\ calls.process_image > 0 =>
       /\ extraction_result # None
       /\ Len(prompts) = Len(extraction_result[1].key_sections)
       /\ calls.create_visual_prompt = Len(extraction_result[1].key_sections)
  /\ calls.process_slide > 0 =>
       /\ calls.process_image = Len(prompts)
       /\ \A p \in 1..Len(prompts) : image_log[p] # None

\* a slide task has run in a run of three Sections one of whose image
\* tasks returned nothing
C23_Witness ==
  /\ calls.process_slide > 0
  /\ Len(prompts) = 3
  /\ calls.process_image = 3
  /\ \E p \in 1..3 : image_log[p] # None /\ ~image_log[p][1].valid
  /\ pc = "process_slide"

\* ------------------------------------------------------------------ C24
\* C24: within one run any two image tasks that saved an image wrote to
\* different file paths, whatever the section titles and the seconds of
\* the two saves.
C24_DistinctPaths ==
  \A j, k \in 1..Len(image_saves) :
    j # k => image_saves[j].filepath # image_saves[k].filepath

\* two tasks saved in the same second, under titles that are cleaned to
\* the same text
C24_Witness ==
  /\ Len(image_saves) = 2
  /\ SubSeq(image_saves[1].filepath.filename, 1, 15)
       = SubSeq(image_saves[2].filepath.filename, 1, 15)
  /\ image_saves[1].filepath.filename
       = Timestamp(0) \o <<"_", "1", "_", "a", "_", "b", ".", "p", "n", "g">>
  /\ image_saves[2].filepath.filename
       = Timestamp(0) \o <<"_", "2", "_", "a", "_", "b", ".", "p", "n", "g">>

\* ------------------------------------------------------------------ C25
\* the page parts of the returned text
PageParts ==
  SelectSeq(pdf_output[1], LAMBDA part : part.kind = "page")

\* the number of characters of page text in the returned text
PageContent == TextLength(PageParts)

\* the pages are in page order, from the first on, each with its text
PagesInOrder ==
  \A k \in 1..Len(PageParts) :
    PageParts[k] = PagePart(k, pdf_input.pages[k])

\* the text up to and including page k and its separator
LengthThrough(k) ==
  TextLength(SubSeq(PageParts, 1, k)) + 2 * k

\* no page follows the first page at which the text exceeds the limit
StopsAtLimit ==
  /\ \A k \in 1..(Len(PageParts) - 1) : LengthThrough(k) <= TextLimit
  /\ Len(PageParts) < Len(pdf_input.pages) =>
       LengthThrough(Len(PageParts)) > TextLimit

\* C25: the text returned for a PDF has the pages in page order, no page
\* after the first one at which the accumulated text exceeds 50000
\* characters, and at most 50000 characters of page content.
C25_TruncatesAt50000 ==
  pdf_output # None =>
    /\ PagesInOrder
    /\ StopsAtLimit
    /\ PageContent <= TextLimit

\* ------------------------------------------------------------------ C26
\* C26: between runs, after any sequence of runs, process_complete holds
\* only if slides_html is not empty and key_sections is the extraction
\* result of the most recent run, the run that made the slides.
C26_CompleteHasDeck ==
  (pc = "idle" /\ process_complete) =>
    /\ Len(slides_html) > 0
    /\ key_sections # None
    /\ key_sections = extraction_result
    /\ returned # None
    /\ returned[1].slides = slides_html
    /\ returned[1].extraction_result = key_sections[1]

\* a run that made two slides has completed in a session in which an
\* earlier run had completed
C26_Witness ==
  /\ pc = "idle"
  /\ process_complete
  /\ earlier_success
  /\ Len(slides_html) = 2
  /\ Len(key_sections[1].key_sections) = 3

\* ------------------------------------------------------------------ C28
\* the most recent run has failed: no text, an exception, or no slide
RunFailed == ran /\ pc = "idle" /\ returned = None

\* C28: from the start of a run on, key_sections, image_prompts,
\* generated_images and slides_html hold nothing of an earlier run and
\* process_complete is false until this run sets them; after a run that
\* failed at any stage process_complete is false and slides_html is empty.
C28_NewRunResets ==
  /\ pc = "extract_key_sections" =>
       /\ key_sections = None
       /\ image_prompts = <<>>
       /\ generated_images = <<>>
  /\ pc # "idle" => ~process_complete /\ slides_html = <<>>
  /\ RunFailed => ~process_complete /\ slides_html = <<>>
  /\ RunFailed /\ pdf_content # None => pdf_text # None

\* a run has failed while creating the visual prompts in a session in which
\* an earlier run had completed
C28_Witness ==
  /\ RunFailed
  /\ earlier_success
  /\ failed_at = "create_visual_prompt"
  /\ key_sections # None

\* ------------------------------------------------------------------ C29
\* C29: within a run the values passed to the progress bar never decrease,
\* each is a number from 0 to 100 (no division raised), none exceeds 30
\* while the prompts are created and none exceeds 60 in the image stage.
C29_ProgressMonotone ==
  /\ \A k \in 1..Len(progress_log) :
       /\ progress_log[k] # None
       /\ progress_log[k][1] \in 0..100
       /\ pc \in {"extract_key_sections", "create_visual_prompt"} =>
            progress_log[k][1] <= 30
       /\ pc = "process_image" => progress_log[k][1] <= 60
  /\ \A k \in 1..(Len(progress_log) - 1) :
       progress_log[k] # None /\ progress_log[k + 1] # None =>
         progress_log[k][1] <= progress_log[k + 1][1]

\* a run of three Sections in which an image task and a slide task failed
\* has ended
C29_Witness ==
  /\ pc = "idle"
  /\ Len(prompts) = 3
  /\ Len(generated_images) = 2
  /\ Len(slides_html) = 1
  /\ progress_log = <<Some(0), Some(10), Some(16), Some(23), Some(30),
                      Some(30), Some(40), Some(50), Some(60), Some(80),
                      Some(100)>>

\* ------------------------------------------------------------------ C27
\* the Section from whose visual prompt the image embedded in a slide was
\* generated
EmbeddedImageOrigin(slide) == slide.html_content.image.jpeg_of.prompt[1]

\* C27: every slide of the deck embeds the image that was generated from
\* the visual prompt of the Section the slide was built from, whichever
\* image tasks failed.
C27_SlideEmbedsOwnImage ==
  \A p \in 1..Len(slides_html) :
    EmbeddedImageOrigin(slides_html[p]) = SlideSection(slides_html[p])

\* ------------------------------------------------------------------ C30
\* a list with no empty and no whitespace-only item
NoBlankItem(list) ==
  \A k \in 1..Len(list) :
    /\ list[k] # <<>>
    /\ \E j \in 1..Len(list[k]) : list[k][j] # " "

\* C30: for every Slide, the bullet list create_powerpoint_from_slides
\* re-derives equals the one create_powerpoint_from_template re-derives, and
\* neither holds an empty or whitespace-only item.
C30_SameBulletLists ==
  /\ rederived.blank # None => NoBlankItem(rederived.blank[1])
  /\ rederived.template # None => NoBlankItem(rederived.template[1])
  /\ rederived.blank # None /\ rederived.template # None =>
       rederived.blank = rederived.template

\* both exporters have re-derived the list of a Slide whose section_content
\* holds a whitespace-only piece between two commas
C30_Witness ==
  /\ rederive_slide.section_content = <<"a", ",", " ", " ", ",", " ", "b">>
  /\ rederived.blank = Some(<<<<"a">>, <<"b">>>>)
  /\ rederived.template = Some(<<<<"a">>, <<"b">>>>)

\* both exporters have re-derived the list from the markup of a Slide whose
\* section_content holds no comma
C30_WitnessMarkup ==
  /\ rederive_slide.section_content = <<"a", " ", "b">>
  /\ Len(rederive_slide.html_content) = 2
  /\ rederive_slide.html_content[1].text = <<" ">>
  /\ rederived.blank = Some(<<<<"a">>>>)
  /\ rederived.template = Some(<<<<"a">>>>)

====
